---- MODULE Spec2Model ----
(***************************************************************************)
(* Model of the HL trade ledger derivation pipeline:                       *)
(*   - RateLimiter (token bucket gating every upstream call),              *)
(*   - HyperliquidDataSource.getUserFills (paginated window fetch),        *)
(*   - CacheManager (TTL read-through cache for fills / clearinghouse),    *)
(*   - PositionService.reconstructPositionHistory (average cost method),   *)
(*   - BuilderFilter, PnlService, TradeService and LeaderboardService,     *)
(*   - the HTTP routes over them and the error handler.                    *)
(* Time is the value of Date.now() in milliseconds, scaled down so that a  *)
(* rate-limit window and a cache TTL span a handful of ticks.              *)
(***************************************************************************)
EXTENDS Integers, Sequences, FiniteSets, TLC

(***************************************************************************)
(* Bounds of the model                                                     *)
(***************************************************************************)
MaxTime == 3
MaxCallers == 2
MaxReqWeight == 2
MaxReaders == 2
MaxUpFills == 3
MaxFillTime == 3
MaxFills == 2
MaxUnitFills == 4
MaxListFills == 3
MaxPnlFills == 3
MaxUsers == 5
MaxTradeFills == 3
MaxRequests == 2
MaxExchangeFills == 1
MaxHistFills == 3
MaxLate == 1

(***************************************************************************)
(* Program constants (scaled)                                              *)
(***************************************************************************)
\* config.rateLimitWeight ?? 1200, scaled
maxWeight == 2
\* config.rateLimitWindowMs ?? 60000, scaled: refillRateMs = 4 / 2 = 2 ms
windowMs == 4
\* Math.min(waitTime, 1000): the cap of one polling sleep
MaxSleepMs == 1000
\* MAX_FILLS_PER_REQUEST = 2000, scaled
MAX_FILLS_PER_REQUEST == 2
\* CACHE_FILLS_TTL_MS || '60000', scaled
fillsTtlMs == 2
\* CACHE_CLEARINGHOUSE_TTL_MS || '5000', scaled
clearinghouseTtlMs == 1

VARIABLES
  now,          \* Date.now()
  tokens,       \* RateLimiter.tokens
  lastRefill,   \* RateLimiter.lastRefill
  acq,          \* per caller: the position of its acquire(weight) call
  recent,       \* history: weight admitted by acquire i ms ago, i < windowMs
  burst,        \* history: shape of the calls issued so far
  upstream,     \* the fills the exchange holds, in time order
  fillsCache,   \* CacheManager.fillsCache
  clearinghouseCache, \* CacheManager.clearinghouseCache
  rd,           \* per request: the position of its read
  pin,          \* the fills of one coin and the configured builder
  pout,         \* one reconstructPositionHistory call: arguments and result
  bin,          \* BuilderFilter: the configured TARGET_BUILDER and a fill list
  bout,         \* the last call on the builder filter and what it returned
  qin,          \* PnlService: the account (fills, equity) behind a query
  qout,         \* one calculatePnl call: arguments and result
  registeredUsers, \* LeaderboardService.registeredUsers, in insertion order
  accounts,     \* per address: what calculatePnl and calculateVolume find
  lb,           \* the last call on the leaderboard service and its result
  tin,          \* TradeService: the fills the cache hands to getTrades
  tout,         \* one getTrades call: arguments and result
  http          \* per HTTP request: its route, its position and its response

limiterVars == <<tokens, lastRefill, acq, recent, burst>>
cacheVars == <<upstream, fillsCache, clearinghouseCache, rd>>
posVars == <<pin, pout>>
builderVars == <<bin, bout>>
pnlVars == <<qin, qout>>
boardVars == <<registeredUsers, accounts, lb>>
tradeVars == <<tin, tout>>
svcVars == <<bin, bout, qin, qout, registeredUsers, accounts, lb, tin, tout, http>>

vars == <<now, tokens, lastRefill, acq, recent, burst,
          upstream, fillsCache, clearinghouseCache, rd, pin, pout,
          bin, bout, qin, qout, registeredUsers, accounts, lb, tin, tout, http>>

Callers == 1..MaxCallers
Weights == 1..MaxReqWeight
Times == 0..MaxTime

Min(a, b) == IF a < b THEN a ELSE b
Max(a, b) == IF a > b THEN a ELSE b
Abs(a) == IF a < 0 THEN -a ELSE a

\* Math.ceil(n / d) for n >= 0, d > 0
CeilDiv(n, d) == (n + d - 1) \div d

RECURSIVE SumOver(_, _)
SumOver(f, S) ==
  IF S = {} THEN 0
  ELSE LET x == CHOOSE y \in S : TRUE IN f[x] + SumOver(f, S \ {x})

(***************************************************************************)
(* RateLimiter                                                             *)
(***************************************************************************)

\* refill(): tokensToAdd = floor(elapsed / refillRateMs) * refillAmount, where
\* refillRateMs = windowMs / maxWeight, so elapsed / refillRateMs is
\* elapsed * maxWeight / windowMs.
TokensToAdd(t, last) == ((t - last) * maxWeight) \div windowMs

\* mutant: the refilled bucket is capped one token below its capacity
Refill_capBelow(tok, last, t) ==
  IF TokensToAdd(t, last) > 0
    THEN <<Min(maxWeight - 1, tok + TokensToAdd(t, last)), t>>
    ELSE <<tok, last>>

\* mutant: refill adds the tokens and leaves lastRefill where it was
Refill_keepLast(tok, last, t) ==
  <<Min(maxWeight, tok + TokensToAdd(t, last)), last>>

\* refill(): the pair <<tokens, lastRefill>> after the call
Refill(tok, last, t) ==
  IF TokensToAdd(t, last) > 0
    THEN <<Min(maxWeight, tok + TokensToAdd(t, last)), t>>
    ELSE <<tok, last>>

\* waitTime = Math.ceil((weight - this.tokens) * this.refillRateMs)
WaitTime(weight, tok) == CeilDiv((weight - tok) * windowMs, maxWeight)

\* mutant: wait only while the bucket is empty
MustWait_empty(tok, weight) == tok <= 0

\* mutant: off by one in the loop test
MustWait_le(tok, weight) == tok <= weight

\* the loop test of acquire: while (this.tokens < weight)
MustWait(tok, weight) == tok < weight

Idle == [pc |-> "idle", weight |-> 0, wakeAt |-> 0, cancelled |-> FALSE]

NoBurst == [calls |-> 0, unitOnly |-> FALSE, early |-> FALSE, slept |-> FALSE]

\* One synchronous run of acquire from a refill() up to the next await or the
\* return: refill, test, then either sleep or decrement.
AcquireRun(p, w) ==
  LET r == Refill(tokens, lastRefill, now) IN
  /\ lastRefill' = r[2]
  /\ IF MustWait(r[1], w)
       THEN /\ tokens' = r[1]
            /\ acq' = [acq EXCEPT ![p] =
                 [pc |-> "sleeping", weight |-> w,
                  wakeAt |-> now + Min(WaitTime(w, r[1]), MaxSleepMs),
                  cancelled |-> acq[p].cancelled]]
            /\ recent' = recent
       ELSE /\ tokens' = r[1] - w
            /\ acq' = [acq EXCEPT ![p] =
                 [pc |-> "acquired", weight |-> w, wakeAt |-> 0,
                  cancelled |-> acq[p].cancelled]]
            /\ recent' = [recent EXCEPT ![0] = @ + w]

\* acquire(weight) is called.  burst follows the calls for as long as all of
\* them had weight 1 and came before one refill period had passed.
Acquire(p, w) ==
  /\ acq[p].pc = "idle"
  /\ \A o \in Callers : o < p => acq[o].pc /= "idle"
  /\ AcquireRun(p, w)
  /\ burst' = IF burst.unitOnly /\ burst.early /\ w = 1 /\ TokensToAdd(now, 0) = 0
                THEN [burst EXCEPT !.calls = @ + 1,
                                   !.slept = @ \/ acq'[p].pc = "sleeping"]
                ELSE NoBurst
  /\ UNCHANGED <<now, cacheVars, posVars, svcVars>>

\* the sleep of a waiting acquire ends (a timer fires at or after its time)
AcquireWake(p) ==
  /\ acq[p].pc = "sleeping"
  /\ now >= acq[p].wakeAt
  /\ AcquireRun(p, acq[p].weight)
  /\ UNCHANGED <<now, burst, cacheVars, posVars, svcVars>>

\* acquire has returned to its caller, which may call again
AcquireReturn(p) ==
  /\ acq[p].pc = "acquired"
  /\ acq' = [acq EXCEPT ![p] = Idle]
  /\ UNCHANGED <<now, tokens, lastRefill, recent, burst, cacheVars, posVars, svcVars>>

\* getAvailableTokens()
GetAvailableTokens ==
  LET r == Refill(tokens, lastRefill, now) IN
  /\ r /= <<tokens, lastRefill>>
  /\ tokens' = r[1]
  /\ lastRefill' = r[2]
  /\ UNCHANGED <<now, acq, recent, burst, cacheVars, posVars, svcVars>>

\* The caller of a waiting acquire is cancelled (its client went away).
\* acquire takes no signal and sleep has no abort path: nothing in the
\* limiter changes, the wait goes on.
Cancel(p) ==
  /\ acq[p].pc = "sleeping"
  /\ ~acq[p].cancelled
  /\ acq' = [acq EXCEPT ![p].cancelled = TRUE]
  /\ UNCHANGED <<now, tokens, lastRefill, recent, burst, cacheVars, posVars, svcVars>>

\* the clock advances
Tick ==
  /\ now < MaxTime
  /\ now' = now + 1
  /\ recent' = [i \in 0..(windowMs - 1) |-> IF i = 0 THEN 0 ELSE recent[i - 1]]
  /\ UNCHANGED <<tokens, lastRefill, acq, burst, cacheVars, posVars, svcVars>>

\* the clock advances over the window that follows the start
Elapse ==
  /\ now < windowMs
  /\ now' = now + 1
  /\ recent' = [i \in 0..(windowMs - 1) |-> IF i = 0 THEN 0 ELSE recent[i - 1]]
  /\ UNCHANGED <<tokens, lastRefill, acq, burst, cacheVars, posVars, svcVars>>

\* the time up to which the calls of the first MaxTime ms are followed
Horizon == MaxTime + (MaxCallers + 1) * (windowMs + MaxLate)

\* the clock advances while the calls are followed to their end; a timer
\* fires at most MaxLate ms after it is due
Advance ==
  /\ now < Horizon
  /\ \A p \in Callers : acq[p].pc = "sleeping" => now < acq[p].wakeAt + MaxLate
  /\ now' = now + 1
  /\ recent' = [i \in 0..(windowMs - 1) |-> IF i = 0 THEN 0 ELSE recent[i - 1]]
  /\ UNCHANGED <<tokens, lastRefill, acq, burst, cacheVars, posVars, svcVars>>

\* acquire(weight) is called within the first MaxTime ms
AcquireEarly(p, w) ==
  /\ now <= MaxTime
  /\ Acquire(p, w)

\* new RateLimiter(config)
LimiterConstructed ==
  /\ tokens = maxWeight
  /\ lastRefill = now
  /\ acq = [p \in Callers |-> Idle]
  /\ recent = [i \in 0..(windowMs - 1) |-> 0]
  /\ burst = [calls |-> 0, unitOnly |-> TRUE, early |-> TRUE, slept |-> FALSE]


(***************************************************************************)
(* The exchange (upstream) and HyperliquidDataSource                       *)
(***************************************************************************)
Readers == 1..MaxReaders

NoCoin == "none"
CoinsUp == {"BTC", "ETH"}

\* String.prototype.toUpperCase on the coin names in use
ToUpperCase(c) ==
  CASE c = "btc" -> "BTC"
    [] c = "eth" -> "ETH"
    [] OTHER -> c

\* String.prototype.toLowerCase on the addresses in use
ToLowerCase(u) ==
  CASE u = "0xA" -> "0xa"
    [] u = "0xB" -> "0xb"
    [] u = "0xT" -> "0xt"
    [] OTHER -> u

RawFills == [time : 1..MaxFillTime, coin : CoinsUp]

\* the fill streams the exchange may hold: ascending in time
IsTimeAscending(s) == \A i \in 1..(Len(s) - 1) : s[i].time <= s[i + 1].time

UpstreamStreams(n) ==
  {s \in UNION {[1..k -> RawFills] : k \in 0..n} : IsTimeAscending(s)}

RECURSIVE SelectIdx(_, _, _, _)
\* the indices i >= from of the stream with lo <= time <= hi, in order
SelectIdx(s, i, lo, hi) ==
  IF i > Len(s) THEN <<>>
  ELSE IF s[i].time >= lo /\ s[i].time <= hi
         THEN <<i>> \o SelectIdx(s, i + 1, lo, hi)
         ELSE SelectIdx(s, i + 1, lo, hi)

\* the answer of the exchange to userFillsByTime(startTime, endTime): the
\* first MAX_FILLS_PER_REQUEST fills of the range, ascending in time
UserFillsByTime(startTime, endTime) ==
  LET all == SelectIdx(upstream, 1, startTime, endTime) IN
  SubSeq(all, 1, Min(Len(all), MAX_FILLS_PER_REQUEST))

\* fills.filter(f => f.coin.toUpperCase() === query.coin.toUpperCase())
FilterCoin(batch, coin) ==
  IF coin = NoCoin THEN batch
  ELSE SelectSeq(batch,
         LAMBDA i : ToUpperCase(upstream[i].coin) = ToUpperCase(coin))

RECURSIVE InsertByTime(_, _)
\* insert x behind every element whose time is <= its own (stable)
InsertByTime(sorted, x) ==
  IF sorted = <<>> THEN <<x>>
  ELSE IF upstream[Head(sorted)].time <= upstream[x].time
         THEN <<Head(sorted)>> \o InsertByTime(Tail(sorted), x)
         ELSE <<x>> \o sorted

RECURSIVE SortByTime(_)
\* allFills.sort((a, b) => a.time - b.time): Array.prototype.sort is stable
SortByTime(s) ==
  IF s = <<>> THEN <<>>
  ELSE InsertByTime(SortByTime(SubSeq(s, 1, Len(s) - 1)), s[Len(s)])

(***************************************************************************)
(* CacheManager                                                            *)
(***************************************************************************)
Users == {"0xA", "0xa"}
QueryCoins == {NoCoin, "btc"}
Windows == {<<0, MaxFillTime + 1>>}

\* the reads put to the fills cache: one account under two spellings of its
\* address, and one of them with a coin filter
FillsQueries ==
  {q \in [kind : {"fills"}, user : Users, coin : QueryCoins,
          fromMs : {w[1] : w \in Windows}, toMs : {w[2] : w \in Windows}] :
     q.coin = NoCoin \/ q.user = "0xA"}
ClearinghouseQueries ==
  [kind : {"clearinghouse"}, user : Users \cup {"0xb"}, coin : {NoCoin},
   fromMs : {0}, toMs : {0}]
NoQuery == [kind |-> "none", user |-> "", coin |-> NoCoin, fromMs |-> 0, toMs |-> 0]

\* fillsCacheKey: `${user.toLowerCase()}:${coin || '*'}:${fromMs}:${toMs}`
fillsCacheKey(user, coin, fromMs, toMs) ==
  <<ToLowerCase(user), IF coin = NoCoin THEN "*" ELSE coin, fromMs, toMs>>

\* the key of a read in the cache it goes to
KeyOf(q) ==
  IF q.kind = "clearinghouse"
    THEN <<ToLowerCase(q.user)>>
    ELSE fillsCacheKey(q.user, q.coin, q.fromMs, q.toMs)

FillsKeys == {KeyOf(q) : q \in FillsQueries}
ClearinghouseKeys == {KeyOf(q) : q \in ClearinghouseQueries}

NoEntry == [data |-> <<>>, timestamp |-> -1, by |-> 0]

\* the TTL of the cache a read goes to
TtlOf(q) == IF q.kind = "clearinghouse" THEN clearinghouseTtlMs ELSE fillsTtlMs

\* mutant: an entry exactly TTL old still counts as fresh
IsFresh_le(entry, t, ttl) == entry /= NoEntry /\ t - entry.timestamp <= ttl

\* cached && Date.now() - cached.timestamp < ttl
IsFresh(entry, t, ttl) == entry /= NoEntry /\ t - entry.timestamp < ttl

\* pruneCache on one map: drop entries with now - timestamp > ttl * 2
Pruned(cache, t, ttl) ==
  [k \in DOMAIN cache |->
     IF cache[k] /= NoEntry /\ t - cache[k].timestamp > ttl * 2
       THEN NoEntry ELSE cache[k]]

IdleRead ==
  [pc |-> "idle", q |-> NoQuery, cursor |-> 0, acc |-> <<>>, calls |-> 0,
   lastLen |-> -1, start |-> 0, miss |-> FALSE, hitAge |-> -1,
   errored |-> FALSE, result |-> <<>>]

\* Request r may enter a read; requests are numbered in the order they arrive.
CanStart(r) ==
  /\ rd[r].pc = "idle"
  /\ \A o \in Readers : o < r => rd[o].pc /= "idle"

\* new CacheManager(config)
CacheConstructed ==
  /\ fillsCache = [k \in FillsKeys |-> NoEntry]
  /\ clearinghouseCache = [k \in ClearinghouseKeys |-> NoEntry]
  /\ rd = [r \in Readers |-> IdleRead]

\* the value a clearinghouseState request resolves to
ClearinghouseData == <<0>>

\* The fetcher has resolved with data: the rest of getFills /
\* getClearinghouseState (store, prune on the fills path, return).
Store(r, rec, data) ==
  IF rec.q.kind = "clearinghouse"
    THEN /\ clearinghouseCache' =
              [clearinghouseCache EXCEPT ![KeyOf(rec.q)] =
                 [data |-> data, timestamp |-> now, by |-> r]]
         /\ fillsCache' = fillsCache
    ELSE /\ fillsCache' =
              Pruned([fillsCache EXCEPT ![KeyOf(rec.q)] =
                        [data |-> data, timestamp |-> now, by |-> r]],
                     now, fillsTtlMs)
         /\ clearinghouseCache' = Pruned(clearinghouseCache, now, clearinghouseTtlMs)

\* getUserFills leaves its loop: sort, return; the awaiting cache read (if
\* any) stores the list.
Finish(r, rec) ==
  LET data == SortByTime(rec.acc) IN
  /\ rd' = [rd EXCEPT ![r] =
       [rec EXCEPT !.pc = "done", !.result = data]]
  /\ IF rec.q.kind = "direct"
       THEN UNCHANGED <<fillsCache, clearinghouseCache>>
       ELSE Store(r, rec, data)

\* the loop test of getUserFills: while (currentStartTime < endTime)
LoopTest(cursor, endTime) == cursor < endTime

\* getUserFills at the head of its loop.  Inside the loop it awaits the
\* limiter and then the posted request; the limiter never fails and only
\* delays, so both waits are the one pending step "post".
LoopHead(r, rec) ==
  IF LoopTest(rec.cursor, rec.q.toMs)
    THEN /\ rd' = [rd EXCEPT ![r] = [rec EXCEPT !.pc = "post", !.calls = @ + 1]]
         /\ UNCHANGED <<fillsCache, clearinghouseCache>>
    ELSE Finish(r, rec)

\* dataSource.getUserFills(query) is entered
EnterGetUserFills(r, rec) ==
  LoopHead(r, [rec EXCEPT !.cursor = rec.q.fromMs, !.acc = <<>>])

\* the queries put to the datasource directly
DirectQueries ==
  {q \in [kind : {"direct"}, user : {"0xA"}, coin : QueryCoins,
          fromMs : 0..MaxFillTime, toMs : 0..MaxFillTime] : q.fromMs <= q.toMs}

\* HyperliquidDataSource.getUserFills(query) is called
GetUserFills(r, q) ==
  /\ rd[r].pc = "idle"
  /\ q \in DirectQueries
  /\ EnterGetUserFills(r, [IdleRead EXCEPT !.q = q, !.start = now, !.miss = TRUE])
  /\ UNCHANGED <<now, upstream, limiterVars, posVars, svcVars>>

\* CacheManager.getFills(user, coin, fromMs, toMs, fetcher) is called
GetFills(r, q) ==
  /\ CanStart(r)
  /\ q \in FillsQueries
  /\ q.fromMs <= q.toMs
  /\ LET cached == fillsCache[KeyOf(q)]
         rec == [IdleRead EXCEPT !.q = q, !.start = now]
     IN IF IsFresh(cached, now, fillsTtlMs)
          THEN /\ rd' = [rd EXCEPT ![r] =
                    [rec EXCEPT !.pc = "done", !.result = cached.data,
                                !.hitAge = now - cached.timestamp, !.start = 0]]
               /\ UNCHANGED <<fillsCache, clearinghouseCache>>
          ELSE EnterGetUserFills(r, [rec EXCEPT !.miss = TRUE])
  /\ UNCHANGED <<now, upstream, limiterVars, posVars, svcVars>>

\* CacheManager.getClearinghouseState(user, fetcher) is called
GetClearinghouseState(r, q) ==
  /\ CanStart(r)
  /\ q \in ClearinghouseQueries
  /\ LET cached == clearinghouseCache[KeyOf(q)]
         rec == [IdleRead EXCEPT !.q = q, !.start = now]
     IN IF IsFresh(cached, now, clearinghouseTtlMs)
          THEN rd' = [rd EXCEPT ![r] =
                    [rec EXCEPT !.pc = "done", !.result = cached.data,
                                !.hitAge = now - cached.timestamp, !.start = 0]]
          ELSE rd' = [rd EXCEPT ![r] =
                    [rec EXCEPT !.miss = TRUE, !.pc = "post", !.calls = 1]]
  /\ UNCHANGED <<now, upstream, fillsCache, clearinghouseCache, limiterVars, posVars, svcVars>>

\* mutant: the next page starts at the last time, not one millisecond after
FillsResponse_noStep(r) ==
  /\ rd[r].pc = "post"
  /\ rd[r].q.kind /= "clearinghouse"
  /\ LET rec == rd[r]
         fills == UserFillsByTime(rec.cursor, rec.q.toMs)
         seen == [rec EXCEPT !.lastLen = Len(fills)]
     IN IF Len(fills) = 0
          THEN Finish(r, seen)
          ELSE LET next == [seen EXCEPT
                              !.acc = rec.acc \o FilterCoin(fills, rec.q.coin),
                              !.cursor = upstream[fills[Len(fills)]].time]
               IN IF Len(fills) < MAX_FILLS_PER_REQUEST
                    THEN Finish(r, next)
                    ELSE LoopHead(r, next)
  /\ UNCHANGED <<now, upstream, limiterVars, posVars, svcVars>>

\* the userFillsByTime request is answered
FillsResponse(r) ==
  /\ rd[r].pc = "post"
  /\ rd[r].q.kind /= "clearinghouse"
  /\ LET rec == rd[r]
         fills == UserFillsByTime(rec.cursor, rec.q.toMs)
         seen == [rec EXCEPT !.lastLen = Len(fills)]
     IN IF Len(fills) = 0
          THEN Finish(r, seen)
          ELSE LET next == [seen EXCEPT
                              !.acc = rec.acc \o FilterCoin(fills, rec.q.coin),
                              !.cursor = upstream[fills[Len(fills)]].time + 1]
               IN IF Len(fills) < MAX_FILLS_PER_REQUEST
                    THEN Finish(r, next)
                    ELSE LoopHead(r, next)
  /\ UNCHANGED <<now, upstream, limiterVars, posVars, svcVars>>

\* the clearinghouseState request is answered
ClearinghouseResponse(r) ==
  /\ rd[r].pc = "post"
  /\ rd[r].q.kind = "clearinghouse"
  /\ rd' = [rd EXCEPT ![r].pc = "done", ![r].result = ClearinghouseData]
  /\ Store(r, rd[r], ClearinghouseData)
  /\ UNCHANGED <<now, upstream, limiterVars, posVars, svcVars>>

\* mutant: the catch block leaves the loop instead of rethrowing
UpstreamError_break(r) ==
  /\ rd[r].pc = "post"
  /\ rd[r].q.kind /= "clearinghouse"
  /\ Finish(r, [rd[r] EXCEPT !.errored = TRUE])
  /\ UNCHANGED <<now, upstream, limiterVars, posVars, svcVars>>

\* the request fails (transport failure, non-2xx): the catch block rethrows,
\* the fetcher rejects and the awaiting cache read rejects with it
UpstreamError(r) ==
  /\ rd[r].pc = "post"
  /\ rd' = [rd EXCEPT ![r].pc = "failed", ![r].errored = TRUE, ![r].start = 0]
  /\ UNCHANGED <<now, upstream, fillsCache, clearinghouseCache, limiterVars, posVars, svcVars>>


(***************************************************************************)
(* BuilderFilter and PositionService                                       *)
(***************************************************************************)
NoBuilder == "none"
NoFee == "none"

\* parseFloat on the decimal strings in use
ParseFloat(str) ==
  CASE str = "0" -> 0
    [] str = "1" -> 1
    [] str = "2" -> 2
    [] OTHER -> 0

\* BuilderFilter.getBuilderAddress: the string form or the b field of the
\* object form; fill.builder is [form, b]
getBuilderAddress(fill) ==
  IF fill.builder.form \in {"string", "object"} /\ fill.builder.b /= ""
    THEN fill.builder.b
    ELSE NoBuilder

\* mutant: the check for a configured target builder is dropped
isBuilderFill_noTarget(fill, targetBuilder) ==
  IF getBuilderAddress(fill) /= NoBuilder
    THEN ToLowerCase(getBuilderAddress(fill)) = targetBuilder
  ELSE IF fill.builderFee = NoFee THEN FALSE
  ELSE ParseFloat(fill.builderFee) > 0

\* mutant: a positive builderFee attributes the fill whatever address it reports
isBuilderFill_anyFee(fill, targetBuilder) ==
  IF targetBuilder = NoBuilder THEN FALSE
  ELSE \/ /\ getBuilderAddress(fill) /= NoBuilder
          /\ ToLowerCase(getBuilderAddress(fill)) = targetBuilder
       \/ /\ fill.builderFee /= NoFee
          /\ ParseFloat(fill.builderFee) > 0

\* BuilderFilter.isBuilderFill
isBuilderFill(fill, targetBuilder) ==
  IF targetBuilder = NoBuilder THEN FALSE
  ELSE IF getBuilderAddress(fill) /= NoBuilder
    THEN ToLowerCase(getBuilderAddress(fill)) = targetBuilder
  ELSE IF fill.builderFee = NoFee THEN FALSE
  ELSE ParseFloat(fill.builderFee) > 0

RECURSIVE GCD(_, _)
GCD(a, b) == IF b = 0 THEN a ELSE GCD(b, a % b)

\* a non-negative price as a reduced fraction <<numerator, denominator>>
Frac(n, d) == IF n = 0 THEN <<0, 1>> ELSE <<n \div GCD(n, d), d \div GCD(n, d)>>

\* Math.sign
Sign(x) == IF x > 0 THEN 1 ELSE IF x < 0 THEN -1 ELSE 0

\* mutant: the side is ignored, every fill counts as a buy
FillSigned_buy(fill) == fill.sz

\* fillSigned = fill.side === 'B' ? fillSize : -fillSize
FillSigned(fill) == IF fill.side = "B" THEN fill.sz ELSE -fill.sz

RECURSIVE InsertFill(_, _)
InsertFill(sorted, x) ==
  IF sorted = <<>> THEN <<x>>
  ELSE IF Head(sorted).time <= x.time
         THEN <<Head(sorted)>> \o InsertFill(Tail(sorted), x)
         ELSE <<x>> \o sorted

RECURSIVE SortFills(_)
\* [...fills].sort((a, b) => a.time - b.time), stable
SortFills(s) ==
  IF s = <<>> THEN <<>>
  ELSE InsertFill(SortFills(SubSeq(s, 1, Len(s) - 1)), s[Len(s)])

\* the locals of reconstructPositionHistory before its loop
LoopStart ==
  [currentSize |-> 0, avgEntryPx |-> <<0, 1>>, totalCost |-> <<0, 1>>,
   hasBuilderFills |-> FALSE, hasNonBuilderFills |-> FALSE, states |-> <<>>]

\* mutant: a flip keeps the entry price of the position it reverses
NewEntry_flipKeeps(st, fill) ==
  LET prevSize == st.currentSize
      fillSigned == FillSigned(fill)
      newSize == prevSize + fillSigned
  IN IF prevSize = 0
       THEN [avgEntryPx |-> Frac(fill.px, 1),
             totalCost |-> Frac(Abs(newSize) * fill.px, 1)]
     ELSE IF Sign(prevSize) = Sign(fillSigned)
       THEN LET cost == Frac(Abs(prevSize) * st.avgEntryPx[1]
                               + Abs(fillSigned) * fill.px * st.avgEntryPx[2],
                             st.avgEntryPx[2])
            IN [avgEntryPx |-> IF Abs(newSize) > 0
                                 THEN Frac(cost[1], cost[2] * Abs(newSize))
                                 ELSE <<0, 1>>,
                totalCost |-> cost]
     ELSE [avgEntryPx |-> st.avgEntryPx, totalCost |-> st.totalCost]

\* the average entry price and total cost after a counted fill
NewEntry(st, fill) ==
  LET prevSize == st.currentSize
      fillSigned == FillSigned(fill)
      newSize == prevSize + fillSigned
  IN IF prevSize = 0
       THEN [avgEntryPx |-> Frac(fill.px, 1),
             totalCost |-> Frac(Abs(newSize) * fill.px, 1)]
     ELSE IF Sign(prevSize) = Sign(fillSigned)
       THEN LET cost == Frac(Abs(prevSize) * st.avgEntryPx[1]
                               + Abs(fillSigned) * fill.px * st.avgEntryPx[2],
                             st.avgEntryPx[2])
            IN [avgEntryPx |-> IF Abs(newSize) > 0
                                 THEN Frac(cost[1], cost[2] * Abs(newSize))
                                 ELSE <<0, 1>>,
                totalCost |-> cost]
     ELSE IF Abs(fillSigned) > Abs(prevSize)
       THEN [avgEntryPx |-> Frac(fill.px, 1),
             totalCost |-> Frac(Abs(newSize) * fill.px, 1)]
     ELSE [avgEntryPx |-> st.avgEntryPx, totalCost |-> st.totalCost]

\* mutant: the taint tracking is not reset when the position closes
LoopBody_noReset(st, fill, idx, fromMs, builderOnly, targetBuilder) ==
  LET isB == isBuilderFill(fill, targetBuilder)
      hasB == st.hasBuilderFills \/ isB
      hasN == st.hasNonBuilderFills \/ ~isB
      includeInPosition == ~builderOnly \/ isB
      newSize == st.currentSize + FillSigned(fill)
      entry == NewEntry(st, fill)
  IN IF ~includeInPosition
       THEN [st EXCEPT !.hasBuilderFills = hasB, !.hasNonBuilderFills = hasN]
       ELSE [currentSize |-> newSize,
             avgEntryPx |-> entry.avgEntryPx,
             totalCost |-> entry.totalCost,
             hasBuilderFills |-> hasB,
             hasNonBuilderFills |-> hasN,
             states |-> IF fill.time >= fromMs
                          THEN Append(st.states,
                                 [timeMs |-> fill.time, netSize |-> newSize,
                                  avgEntryPx |-> entry.avgEntryPx,
                                  tainted |-> builderOnly /\ hasB /\ hasN,
                                  idx |-> idx])
                          ELSE st.states]

\* mutant: fills before fromMs are skipped instead of building the position
LoopBody_skipPrior(st, fill, idx, fromMs, builderOnly, targetBuilder) ==
  IF fill.time < fromMs THEN st ELSE
    LET isB == isBuilderFill(fill, targetBuilder)
        hasB == st.hasBuilderFills \/ isB
        hasN == st.hasNonBuilderFills \/ ~isB
        includeInPosition == ~builderOnly \/ isB
        newSize == st.currentSize + FillSigned(fill)
        entry == NewEntry(st, fill)
    IN IF ~includeInPosition
         THEN [st EXCEPT !.hasBuilderFills = hasB, !.hasNonBuilderFills = hasN]
         ELSE [currentSize |-> newSize,
               avgEntryPx |-> entry.avgEntryPx,
               totalCost |-> entry.totalCost,
               hasBuilderFills |-> IF newSize = 0 THEN FALSE ELSE hasB,
               hasNonBuilderFills |-> IF newSize = 0 THEN FALSE ELSE hasN,
               states |-> IF fill.time >= fromMs
                            THEN Append(st.states,
                                   [timeMs |-> fill.time, netSize |-> newSize,
                                    avgEntryPx |-> entry.avgEntryPx,
                                    tainted |-> builderOnly /\ hasB /\ hasN,
                                    idx |-> idx])
                            ELSE st.states]

\* one pass of the loop body for the fill at position idx of sortedFills
LoopBody(st, fill, idx, fromMs, builderOnly, targetBuilder) ==
  LET isB == isBuilderFill(fill, targetBuilder)
      hasB == st.hasBuilderFills \/ isB
      hasN == st.hasNonBuilderFills \/ ~isB
      includeInPosition == ~builderOnly \/ isB
      newSize == st.currentSize + FillSigned(fill)
      entry == NewEntry(st, fill)
  IN IF ~includeInPosition
       THEN [st EXCEPT !.hasBuilderFills = hasB, !.hasNonBuilderFills = hasN]
       ELSE [currentSize |-> newSize,
             avgEntryPx |-> entry.avgEntryPx,
             totalCost |-> entry.totalCost,
             hasBuilderFills |-> IF newSize = 0 THEN FALSE ELSE hasB,
             hasNonBuilderFills |-> IF newSize = 0 THEN FALSE ELSE hasN,
             states |-> IF fill.time >= fromMs
                          THEN Append(st.states,
                                 [timeMs |-> fill.time, netSize |-> newSize,
                                  avgEntryPx |-> entry.avgEntryPx,
                                  tainted |-> builderOnly /\ hasB /\ hasN,
                                  idx |-> idx])
                          ELSE st.states]

RECURSIVE Loop(_, _, _, _, _, _, _)
\* for (const fill of sortedFills) { if (fill.time > toMs) break; ... }
Loop(st, sortedFills, idx, fromMs, toMs, builderOnly, targetBuilder) ==
  IF idx > Len(sortedFills) THEN st
  ELSE IF sortedFills[idx].time > toMs THEN st
  ELSE Loop(LoopBody(st, sortedFills[idx], idx, fromMs, builderOnly, targetBuilder),
            sortedFills, idx + 1, fromMs, toMs, builderOnly, targetBuilder)

\* PositionService.reconstructPositionHistory; each state also carries idx,
\* the position of its fill in sortedFills
reconstructPositionHistory(fills, fromMs, toMs, builderOnly, targetBuilder) ==
  Loop(LoopStart, SortFills(fills), 1, fromMs, toMs, builderOnly, targetBuilder).states

\* the fills of one coin as the cache hands them over: ascending in time
PosFills ==
  [time : {1, 2}, side : {"B", "A"}, sz : {1, 2}, px : {1, 2},
   builder : {[form |-> "absent", b |-> ""]}, builderFee : {NoFee, "1"}]

\* fills of size 1, for the longer lists
UnitFills == {f \in PosFills : f.time = 1 /\ f.sz = 1}

PosWindows == {w \in {1, 2} \X {1, 2} : w[1] <= w[2]}

NoInput == [fills |-> <<>>, targetBuilder |-> NoBuilder]

NoOutput ==
  [done |-> FALSE, fromMs |-> 0, toMs |-> 0, builderOnly |-> FALSE,
   states |-> <<>>]

\* reconstructPositionHistory(coinFills, coin, fromMs, toMs, builderOnly) runs
Reconstruct(fromMs, toMs, builderOnly) ==
  /\ ~pout.done
  /\ pout' = [done |-> TRUE, fromMs |-> fromMs, toMs |-> toMs,
              builderOnly |-> builderOnly,
              states |-> reconstructPositionHistory(pin.fills, fromMs, toMs,
                           builderOnly, pin.targetBuilder)]
  /\ UNCHANGED <<now, limiterVars, cacheVars, pin, svcVars>>

PositionIdle ==
  /\ pin = NoInput
  /\ pout = NoOutput

(***************************************************************************)
(* BuilderFilter                                                           *)
(***************************************************************************)
\* new BuilderFilter(config.targetBuilder): targetBuilder?.toLowerCase() || null
BuilderFilterTarget(raw) ==
  IF raw = NoBuilder \/ raw = "" THEN NoBuilder ELSE ToLowerCase(raw)

RECURSIVE DetectTaintLoop(_, _, _, _, _)
DetectTaintLoop(fills, i, hasBuilder, hasNonBuilder, targetBuilder) ==
  IF i > Len(fills)
    THEN [hasBuilder |-> hasBuilder, hasNonBuilder |-> hasNonBuilder,
          tainted |-> hasBuilder /\ hasNonBuilder]
  ELSE LET b == isBuilderFill(fills[i], targetBuilder)
           hb == hasBuilder \/ b
           hn == hasNonBuilder \/ ~b
       IN IF hb /\ hn
            THEN [hasBuilder |-> TRUE, hasNonBuilder |-> TRUE, tainted |-> TRUE]
            ELSE DetectTaintLoop(fills, i + 1, hb, hn, targetBuilder)

\* BuilderFilter.detectTaint
detectTaint(fills, targetBuilder) ==
  IF targetBuilder = NoBuilder
    THEN [hasBuilder |-> FALSE, hasNonBuilder |-> TRUE, tainted |-> FALSE]
    ELSE DetectTaintLoop(fills, 1, FALSE, FALSE, targetBuilder)

\* BuilderFilter.filterBuilderFills
filterBuilderFills(fills, targetBuilder) ==
  IF targetBuilder = NoBuilder THEN <<>>
  ELSE SelectSeq(fills, LAMBDA f : isBuilderFill(f, targetBuilder))

RECURSIVE LifecycleLoop(_, _, _, _, _)
\* the loop of groupByPositionLifecycle over coinFills
LifecycleLoop(coinFills, i, lifecycles, currentLifecycle, currentPosition) ==
  IF i > Len(coinFills)
    THEN IF Len(currentLifecycle) > 0
           THEN Append(lifecycles, currentLifecycle) ELSE lifecycles
  ELSE LET fill == coinFills[i]
           fillSize == FillSigned(fill)
           cur == IF currentPosition = 0 /\ fillSize /= 0
                    THEN <<fill>> ELSE Append(currentLifecycle, fill)
           pos == currentPosition + fillSize
       IN IF pos = 0 /\ Len(cur) > 0
            THEN LifecycleLoop(coinFills, i + 1, Append(lifecycles, cur), <<>>, pos)
            ELSE LifecycleLoop(coinFills, i + 1, lifecycles, cur, pos)

\* BuilderFilter.groupByPositionLifecycle
groupByPositionLifecycle(fills, coin) ==
  LifecycleLoop(
    SortFills(SelectSeq(fills, LAMBDA f : ToUpperCase(f.coin) = ToUpperCase(coin))),
    1, <<>>, <<>>, 0)

\* BuilderFilter.isAnyLifecycleTainted
isAnyLifecycleTainted(fills, coin, targetBuilder) ==
  IF targetBuilder = NoBuilder THEN FALSE
  ELSE \E k \in 1..Len(groupByPositionLifecycle(fills, coin)) :
         detectTaint(groupByPositionLifecycle(fills, coin)[k], targetBuilder).tainted

RECURSIVE UniqueCoins(_)
\* [...new Set(fills.map(f => f.coin.toUpperCase()))], in order of first use
UniqueCoins(fills) ==
  IF fills = <<>> THEN <<>>
  ELSE LET rest == UniqueCoins(SubSeq(fills, 1, Len(fills) - 1))
           c == ToUpperCase(fills[Len(fills)].coin)
       IN IF \E k \in 1..Len(rest) : rest[k] = c THEN rest ELSE Append(rest, c)

RECURSIVE InsertState(_, _)
InsertState(sorted, x) ==
  IF sorted = <<>> THEN <<x>>
  ELSE IF Head(sorted).timeMs <= x.timeMs
         THEN <<Head(sorted)>> \o InsertState(Tail(sorted), x)
         ELSE <<x>> \o sorted

RECURSIVE SortStates(_)
\* allPositions.sort((a, b) => a.timeMs - b.timeMs), stable
SortStates(s) ==
  IF s = <<>> THEN <<>>
  ELSE InsertState(SortStates(SubSeq(s, 1, Len(s) - 1)), s[Len(s)])

\* TradeService.getRawFills on what the cache hands over for the window
getRawFills(fills, fromMs, toMs) ==
  SelectSeq(fills, LAMBDA f : f.time >= fromMs /\ f.time <= toMs)

RECURSIVE PerCoin(_, _, _, _, _, _, _)
\* for (const coin of coins) { ... allPositions.push(...positions) }
PerCoin(coins, k, fills, fromMs, toMs, builderOnly, targetBuilder) ==
  IF k > Len(coins) THEN <<>>
  ELSE reconstructPositionHistory(
         SelectSeq(fills, LAMBDA f : ToUpperCase(f.coin) = coins[k]),
         fromMs, toMs, builderOnly, targetBuilder)
       \o PerCoin(coins, k + 1, fills, fromMs, toMs, builderOnly, targetBuilder)

\* PositionService.getPositionHistory without a coin parameter; fills is what
\* the cache hands over for the window [0, toMs] (includePrior defaults to true)
getPositionHistory(fills, fromMs, toMs, builderOnly, targetBuilder) ==
  LET got == getRawFills(fills, 0, toMs)
  IN SortStates(PerCoin(UniqueCoins(got), 1, got, fromMs, toMs, builderOnly,
                        targetBuilder))

(***************************************************************************)
(* PnlService; amounts are integers in units of 0.01                       *)
(***************************************************************************)
\* an optional parameter: <<>> when it was not given, <<v>> when given as v
Absent == <<>>
Given(v) == <<v>>

\* const RETURN_PCT_CAP = 1000
RETURN_PCT_CAP == 1000
\* MAX_START_CAPITAL || '1000000', scaled
defaultMaxStartCapital == 100
\* the 0.01 of Math.max(equityAtFromMs, 0.01)
MinCapital == 1

\* a number as a reduced fraction <<numerator, denominator>>, denominator > 0
SignedFrac(n, d) ==
  IF n >= 0 THEN Frac(n, d) ELSE <<-Frac(-n, d)[1], Frac(-n, d)[2]>>

NaN == [nan |-> TRUE, val |-> <<0, 1>>]
Num(n, d) == [nan |-> FALSE, val |-> SignedFrac(n, d)]

\* (realizedPnl / effectiveCapital) * 100 clamped by Math.max(-CAP,
\* Math.min(CAP, .)): x / 0 is an infinity of the sign of x, 0 / 0 is NaN, and
\* Math.min and Math.max return NaN on NaN
ReturnPct(realizedPnl, effectiveCapital) ==
  IF effectiveCapital = 0
    THEN IF realizedPnl = 0 THEN NaN
         ELSE IF realizedPnl > 0 THEN Num(RETURN_PCT_CAP, 1)
         ELSE Num(-RETURN_PCT_CAP, 1)
  ELSE IF 100 * realizedPnl > RETURN_PCT_CAP * effectiveCapital
    THEN Num(RETURN_PCT_CAP, 1)
  ELSE IF 100 * realizedPnl < -RETURN_PCT_CAP * effectiveCapital
    THEN Num(-RETURN_PCT_CAP, 1)
  ELSE Num(100 * realizedPnl, effectiveCapital)

\* the locals of calculatePnl before its loop
PnlStart ==
  [hasBuilderFills |-> FALSE, hasNonBuilderFills |-> FALSE, realizedPnl |-> 0,
   feesPaid |-> 0, tradeCount |-> 0, volume |-> 0]

\* mutant: every fill is counted, whatever the mode
PnlCounted_all(builderOnly, isB) == TRUE

\* !params.builderOnly || isBuilderFill
PnlCounted(builderOnly, isB) == builderOnly /= Given(TRUE) \/ isB

RECURSIVE PnlLoop(_, _, _, _, _)
\* for (const fill of fills) { ... } of calculatePnl
PnlLoop(fills, i, m, builderOnly, targetBuilder) ==
  IF i > Len(fills) THEN m
  ELSE LET fill == fills[i]
           isB == isBuilderFill(fill, targetBuilder)
           seen == [m EXCEPT !.hasBuilderFills = m.hasBuilderFills \/ isB,
                             !.hasNonBuilderFills = m.hasNonBuilderFills \/ ~isB]
       IN PnlLoop(fills, i + 1,
            IF PnlCounted(builderOnly, isB)
              THEN [seen EXCEPT !.realizedPnl = m.realizedPnl + fill.closedPnl,
                                !.feesPaid = m.feesPaid + fill.fee,
                                !.tradeCount = m.tradeCount + 1,
                                !.volume = m.volume + fill.px * fill.sz]
              ELSE seen,
            builderOnly, targetBuilder)

RECURSIVE SumClosedPnl(_)
SumClosedPnl(fills) ==
  IF fills = <<>> THEN 0 ELSE Head(fills).closedPnl + SumClosedPnl(Tail(fills))

\* PnlService.getApproximateEquityAt; t is Date.now()
getApproximateEquityAt(currentEquity, fills, atTimeMs, t) ==
  IF atTimeMs >= t THEN currentEquity
  ELSE Max(currentEquity - SumClosedPnl(getRawFills(fills, atTimeMs, t)), MinCapital)

\* mutant: the taint flag ignores the mode
PnlTainted_anyMode(builderOnly, m) == m.hasBuilderFills /\ m.hasNonBuilderFills

\* params.builderOnly === true && hasBuilderFills && hasNonBuilderFills
PnlTainted(builderOnly, m) ==
  builderOnly = Given(TRUE) /\ m.hasBuilderFills /\ m.hasNonBuilderFills

\* PnlService.calculatePnl; fills is what the cache hands over, t is Date.now()
calculatePnl(fills, currentEquity, t, params, targetBuilder) ==
  LET fromMs == IF params.fromMs = Absent THEN 0 ELSE params.fromMs[1]
      toMs == IF params.toMs = Absent THEN t ELSE params.toMs[1]
      maxStartCapital == IF params.maxStartCapital = Absent
                           THEN defaultMaxStartCapital ELSE params.maxStartCapital[1]
      m == PnlLoop(getRawFills(fills, fromMs, toMs), 1, PnlStart,
                   params.builderOnly, targetBuilder)
      equityAtFromMs == getApproximateEquityAt(currentEquity, fills, fromMs, t)
      effectiveCapital == Min(Max(equityAtFromMs, MinCapital), maxStartCapital)
  IN [realizedPnl |-> m.realizedPnl,
      returnPct |-> ReturnPct(m.realizedPnl, effectiveCapital),
      feesPaid |-> m.feesPaid,
      tradeCount |-> m.tradeCount,
      tainted |-> PnlTainted(params.builderOnly, m),
      effectiveCapital |-> effectiveCapital]

\* PnlService.calculateVolume
calculateVolume(fills, t, params, targetBuilder) ==
  LET fromMs == IF params.fromMs = Absent THEN 0 ELSE params.fromMs[1]
      toMs == IF params.toMs = Absent THEN t ELSE params.toMs[1]
  IN PnlLoop(getRawFills(fills, fromMs, toMs), 1, PnlStart,
             params.builderOnly, targetBuilder).volume

(***************************************************************************)
(* The services before any call                                            *)
(***************************************************************************)
\* no call on the builder filter yet; a call leaves its name, its arguments
\* (index of the fill, builderOnly) and what it returned: a boolean (flag), a
\* list or a record (rec)
NoBuilderCall ==
  [op |-> "none", index |-> 0, builderOnly |-> Absent, flag |-> FALSE,
   list |-> <<>>, rec |-> [tainted |-> FALSE]]

BuilderIdle ==
  /\ bin = [fills |-> <<>>, raw |-> NoBuilder, targetBuilder |-> NoBuilder]
  /\ bout = NoBuilderCall

\* a query without coin, window and capital cap
PlainParams(builderOnly) ==
  [fromMs |-> Absent, toMs |-> Absent, builderOnly |-> builderOnly,
   maxStartCapital |-> Absent]

NoPnlResult ==
  [realizedPnl |-> 0, returnPct |-> Num(0, 1), feesPaid |-> 0, tradeCount |-> 0,
   tainted |-> FALSE, effectiveCapital |-> 0]

NoPnlCall == [op |-> "none", params |-> PlainParams(Absent), result |-> NoPnlResult]

PnlIdle ==
  /\ qin = [fills |-> <<>>, currentEquity |-> 0, targetBuilder |-> NoBuilder]
  /\ qout = NoPnlCall

BoardIdle ==
  /\ registeredUsers = <<>>
  /\ accounts = <<>>
  /\ lb = [op |-> "none", userMetrics |-> <<>>, entries |-> <<>>]

\* no getTrades call yet
TradesIdle ==
  /\ tin = [fills |-> <<>>, targetBuilder |-> NoBuilder]
  /\ tout = [op |-> "none"]

\* no HTTP request yet
ApiIdle == http = <<>>

ServicesIdle == BuilderIdle /\ PnlIdle /\ BoardIdle /\ TradesIdle /\ ApiIdle

(***************************************************************************)
(* Calls on the builder filter and on the services that consult it         *)
(***************************************************************************)
\* a fill whose fields other than side and attribution are fixed
BaseFill ==
  [time |-> 1, coin |-> "BTC", side |-> "B", sz |-> 1, px |-> 1,
   closedPnl |-> 1, fee |-> 1,
   builder |-> [form |-> "absent", b |-> ""], builderFee |-> NoFee]

\* fill.builder: omitted, a string, or an object whose b is an address or not
BuilderReports ==
  {[form |-> "absent", b |-> ""],
   [form |-> "string", b |-> ""], [form |-> "string", b |-> "0xt"],
   [form |-> "string", b |-> "0xT"], [form |-> "string", b |-> "0xo"],
   [form |-> "object", b |-> ""], [form |-> "object", b |-> "0xT"],
   [form |-> "object", b |-> "0xo"]}

\* single fills over every form of the builder field and of builderFee
AttrFills ==
  {[BaseFill EXCEPT !.builder = b, !.builderFee = f] :
     b \in BuilderReports, f \in {NoFee, "0", "1"}}

\* the fills of the lists: both sides, attributed by fee, by address, or not
ListFills ==
  {[BaseFill EXCEPT !.side = s, !.builder = a[1], !.builderFee = a[2]] :
     s \in {"B", "A"},
     a \in {<<[form |-> "absent", b |-> ""], NoFee>>,
            <<[form |-> "absent", b |-> ""], "1">>,
            <<[form |-> "string", b |-> "0xT"], NoFee>>,
            <<[form |-> "string", b |-> "0xo"], "1">>}}

\* process.env.TARGET_BUILDER: unset, empty, or an address in either case
TargetConfigs == {NoBuilder, "", "0xt", "0xT"}

\* what a call on the builder filter leaves alone
builderFrame ==
  <<now, limiterVars, cacheVars, posVars, bin, pnlVars, boardVars, tradeVars, http>>

IsBuilderFill(i) ==
  /\ bout.op = "none"
  /\ i <= Len(bin.fills)
  /\ bout' = [NoBuilderCall EXCEPT !.op = "isBuilderFill", !.index = i,
                !.flag = isBuilderFill(bin.fills[i], bin.targetBuilder)]
  /\ UNCHANGED builderFrame

FilterBuilderFills ==
  /\ bout.op = "none"
  /\ bout' = [NoBuilderCall EXCEPT !.op = "filterBuilderFills",
                !.list = filterBuilderFills(bin.fills, bin.targetBuilder)]
  /\ UNCHANGED builderFrame

DetectTaint ==
  /\ bout.op = "none"
  /\ bout' = [NoBuilderCall EXCEPT !.op = "detectTaint",
                !.rec = detectTaint(bin.fills, bin.targetBuilder)]
  /\ UNCHANGED builderFrame

IsAnyLifecycleTainted ==
  /\ bout.op = "none"
  /\ bout' = [NoBuilderCall EXCEPT !.op = "isAnyLifecycleTainted",
                !.flag = isAnyLifecycleTainted(bin.fills, "BTC", bin.targetBuilder)]
  /\ UNCHANGED builderFrame

\* GET /v1/positions/history without coin and window
GetPositionHistory(builderOnly) ==
  /\ bout.op = "none"
  /\ bout' = [NoBuilderCall EXCEPT !.op = "getPositionHistory",
                !.builderOnly = Given(builderOnly),
                !.list = getPositionHistory(bin.fills, 0, now, builderOnly,
                                            bin.targetBuilder)]
  /\ UNCHANGED builderFrame

\* GET /v1/pnl without coin and window, on an account of equity 5
CalculatePnlPlain(builderOnly) ==
  /\ bout.op = "none"
  /\ bout' = [NoBuilderCall EXCEPT !.op = "calculatePnl",
                !.builderOnly = builderOnly,
                !.rec = calculatePnl(bin.fills, 5, now, PlainParams(builderOnly),
                                     bin.targetBuilder)]
  /\ UNCHANGED builderFrame

(***************************************************************************)
(* Calls on the PnL service                                                *)
(***************************************************************************)
\* opening buys realize nothing; closing sells realize a loss or a gain
PnlFills ==
  {[BaseFill EXCEPT !.time = t, !.side = k[1], !.closedPnl = k[2],
                    !.builderFee = f] :
     t \in {1, 2, 3}, k \in {<<"B", 0>>, <<"A", -20>>, <<"A", 30>>},
     f \in {NoFee, "1"}}

\* the queries: window, mode and capital cap, each given or not
PnlParams ==
  {[fromMs |-> w[1], toMs |-> w[2], builderOnly |-> b, maxStartCapital |-> c] :
     w \in {<<Absent, Absent>>, <<Given(2), Absent>>, <<Given(2), Given(2)>>},
     b \in {Absent, Given(FALSE), Given(TRUE)},
     c \in {Absent, Given(0), Given(4)}}

\* GET /v1/pnl
CalculatePnl(params) ==
  /\ qout.op = "none"
  /\ qout' = [op |-> "calculatePnl", params |-> params,
              result |-> calculatePnl(qin.fills, qin.currentEquity, now, params,
                                      qin.targetBuilder)]
  /\ UNCHANGED <<now, limiterVars, cacheVars, posVars, builderVars, qin, boardVars,
                 tradeVars, http>>

(***************************************************************************)
(* LeaderboardService                                                      *)
(***************************************************************************)
\* TARGET_BUILDER of the deployment the leaderboard runs in
BoardTarget == "0xt"

\* the addresses clients send; the first MaxUsers lower-case ones and "0xA"
AllAddresses == <<"0xa", "0xb", "0xc", "0xd", "0xe", "0xf">>
Addresses == {AllAddresses[i] : i \in 1..MaxUsers} \cup {"0xA"}

\* params.limit ?? 100
DefaultLimit == 100

Contains(seq, x) == \E i \in 1..Len(seq) : seq[i] = x

\* Set.prototype.delete, keeping the insertion order of the others
Without(seq, x) == SelectSeq(seq, LAMBDA y : y /= x)

\* mutant: the address is stored as it was sent
registerUser_asSent(users, user) ==
  IF Contains(users, user)
    THEN [users |-> users, returned |-> FALSE]
    ELSE [users |-> Append(users, user), returned |-> TRUE]

\* mutant: the address is added without looking it up first
registerUser_noLookup(users, user) ==
  [users |-> Append(users, ToLowerCase(user)), returned |-> TRUE]

\* LeaderboardService.registerUser: the registry after the call and the value
\* returned
registerUser(users, user) ==
  LET normalizedUser == ToLowerCase(user) IN
  IF Contains(users, normalizedUser)
    THEN [users |-> users, returned |-> FALSE]
    ELSE [users |-> Append(users, normalizedUser), returned |-> TRUE]

\* LeaderboardService.unregisterUser: Set.prototype.delete returns whether the
\* element was there
unregisterUser(users, user) ==
  [users |-> Without(users, ToLowerCase(user)),
   returned |-> Contains(users, ToLowerCase(user))]

\* LeaderboardService.isUserRegistered
isUserRegistered(users, user) == Contains(users, ToLowerCase(user))

\* POST /v1/users: the status and message of the reply
PostUsersReply(isNew) ==
  IF isNew THEN [status |-> 201, message |-> ""]
  ELSE [status |-> 200, message |-> "User already registered"]

\* DELETE /v1/users/:user: the status and message of the reply
DeleteUsersReply(wasRemoved) ==
  IF wasRemoved THEN [status |-> 200, message |-> ""]
  ELSE [status |-> 404, message |-> "User not found"]

\* what is remembered of the call before the last one
NoPrev == [op |-> "none", user |-> "", before |-> <<>>]
PrevOf(call) == [op |-> call.op, user |-> call.user, before |-> call.before]

\* b.metricValue - a.metricValue as the sort sees it: its sign, and 0 when it
\* is NaN
Compare(a, b) ==
  IF a.metricValue.nan \/ b.metricValue.nan THEN 0
  ELSE Sign(b.metricValue.val[1] * a.metricValue.val[2]
            - a.metricValue.val[1] * b.metricValue.val[2])

RECURSIVE InsertMetric(_, _)
InsertMetric(sorted, x) ==
  IF sorted = <<>> THEN <<x>>
  ELSE IF Compare(sorted[Len(sorted)], x) > 0
         THEN Append(InsertMetric(SubSeq(sorted, 1, Len(sorted) - 1), x),
                     sorted[Len(sorted)])
         ELSE Append(sorted, x)

RECURSIVE SortMetrics(_)
\* userMetrics.sort((a, b) => b.metricValue - a.metricValue): stable; where
\* the comparator answers NaN the order is the insertion sort's
SortMetrics(s) ==
  IF s = <<>> THEN <<>>
  ELSE InsertMetric(SortMetrics(SubSeq(s, 1, Len(s) - 1)), s[Len(s)])

\* the query handed to calculatePnl and calculateVolume for one user
UserParams(params) ==
  [fromMs |-> params.fromMs, toMs |-> params.toMs,
   builderOnly |-> params.builderOnly,
   maxStartCapital |-> params.maxStartCapital]

\* mutant: the mode test is inverted, tainted users are skipped outside
\* builderOnly mode only
SkipTainted_otherMode(params, pnl) == params.builderOnly /= Given(TRUE) /\ pnl.tainted

\* mutant: tainted users are never skipped
SkipTainted_never(params, pnl) == FALSE

\* if (params.builderOnly && pnl.tainted) continue
SkipTainted(params, pnl) == params.builderOnly = Given(TRUE) /\ pnl.tainted

\* an await inside the try block rejects: calculatePnl, or calculateVolume
\* when the metric asks for it
Throws(acct, params) ==
  \/ acct.fails = "pnl"
  \/ acct.fails = "volume" /\ params.metric = "volume"

\* mutant: a user whose computation fails is ranked with a metric of 0
UserMetric_failZero(user, acct, params, t) ==
  LET pnl == calculatePnl(acct.fills, acct.currentEquity, t, UserParams(params),
                          BoardTarget)
  IN IF Throws(acct, params)
       THEN <<[user |-> user, metricValue |-> Num(0, 1), tradeCount |-> 0,
               tainted |-> FALSE]>>
     ELSE IF SkipTainted(params, pnl) THEN <<>>
     ELSE <<[user |-> user,
             metricValue |->
               CASE params.metric = "pnl" -> Num(pnl.realizedPnl, 1)
                 [] params.metric = "returnPct" -> pnl.returnPct
                 [] params.metric = "volume" ->
                      Num(calculateVolume(acct.fills, t, UserParams(params),
                                          BoardTarget), 1),
             tradeCount |-> pnl.tradeCount,
             tainted |-> pnl.tainted]>>

\* the body of the loop over the users for one user: <<>> when the user is
\* skipped, else the record pushed on userMetrics
UserMetric(user, acct, params, t) ==
  LET pnl == calculatePnl(acct.fills, acct.currentEquity, t, UserParams(params),
                          BoardTarget)
  IN IF Throws(acct, params) THEN <<>>
     ELSE IF SkipTainted(params, pnl) THEN <<>>
     ELSE <<[user |-> user,
             metricValue |->
               CASE params.metric = "pnl" -> Num(pnl.realizedPnl, 1)
                 [] params.metric = "returnPct" -> pnl.returnPct
                 [] params.metric = "volume" ->
                      Num(calculateVolume(acct.fills, t, UserParams(params),
                                          BoardTarget), 1),
             tradeCount |-> pnl.tradeCount,
             tainted |-> pnl.tainted]>>

RECURSIVE UserMetrics(_, _, _, _, _)
\* for (const user of users) { try { ... } catch { } }
UserMetrics(users, k, accts, params, t) ==
  IF k > Len(users) THEN <<>>
  ELSE UserMetric(users[k], accts[users[k]], params, t)
       \o UserMetrics(users, k + 1, accts, params, t)

\* userMetrics.slice(0, limit).map((m, index) => ({rank: index + 1, ...m}))
Ranked(sorted, limit) ==
  [i \in 1..Min(Len(sorted), limit) |->
     [rank |-> i, user |-> sorted[i].user, metricValue |-> sorted[i].metricValue,
      tradeCount |-> sorted[i].tradeCount, tainted |-> sorted[i].tainted]]

\* LeaderboardService.getLeaderboard: the response's entries
getLeaderboard(users, accts, params, t) ==
  IF Len(users) = 0 THEN <<>>
  ELSE Ranked(SortMetrics(UserMetrics(users, 1, accts, params, t)),
              IF params.limit = Absent THEN DefaultLimit ELSE params.limit[1])

\* the queries GET /v1/leaderboard accepts
BoardParams ==
  {[fromMs |-> Absent, toMs |-> Absent, metric |-> m, builderOnly |-> b,
    maxStartCapital |-> c, limit |-> l] :
     m \in {"pnl", "returnPct", "volume"}, b \in {Absent, Given(TRUE)},
     c \in {Absent, Given(0)}, l \in {Absent, Given(1)}}

NoBoardCall ==
  [op |-> "none", params |-> CHOOSE p \in BoardParams : TRUE,
   userMetrics |-> <<>>, entries |-> <<>>,
   user |-> "", returned |-> FALSE, reply |-> PostUsersReply(FALSE),
   before |-> <<>>, prev |-> NoPrev]

\* POST /v1/users with body {user}
RegisterUser(user) ==
  /\ lb.op /= "getLeaderboard"
  /\ registeredUsers' = registerUser(registeredUsers, user).users
  /\ lb' = [NoBoardCall EXCEPT
              !.op = "registerUser", !.user = user,
              !.returned = registerUser(registeredUsers, user).returned,
              !.reply = PostUsersReply(registerUser(registeredUsers, user).returned),
              !.before = registeredUsers, !.prev = PrevOf(lb)]
  /\ UNCHANGED <<now, limiterVars, cacheVars, posVars, builderVars, pnlVars,
                 accounts, tradeVars, http>>

\* DELETE /v1/users/:user
UnregisterUser(user) ==
  /\ lb.op /= "getLeaderboard"
  /\ registeredUsers' = unregisterUser(registeredUsers, user).users
  /\ lb' = [NoBoardCall EXCEPT
              !.op = "unregisterUser", !.user = user,
              !.returned = unregisterUser(registeredUsers, user).returned,
              !.reply = DeleteUsersReply(unregisterUser(registeredUsers, user).returned),
              !.before = registeredUsers, !.prev = PrevOf(lb)]
  /\ UNCHANGED <<now, limiterVars, cacheVars, posVars, builderVars, pnlVars,
                 accounts, tradeVars, http>>

\* GET /v1/leaderboard; userMetrics is kept beside the response
GetLeaderboard(params) ==
  /\ lb.op /= "getLeaderboard"
  /\ lb' = [NoBoardCall EXCEPT
              !.op = "getLeaderboard", !.params = params,
              !.userMetrics = IF Len(registeredUsers) = 0 THEN <<>>
                              ELSE UserMetrics(registeredUsers, 1, accounts, params, now),
              !.entries = getLeaderboard(registeredUsers, accounts, params, now)]
  /\ UNCHANGED <<now, limiterVars, cacheVars, posVars, builderVars, pnlVars,
                 registeredUsers, accounts, tradeVars, http>>

\* what the exchange holds for the addresses, in their order: a builder gain;
\* a builder buy and a non-builder loss; nothing; an account whose requests
\* fail from the first one on; one whose requests fail after calculatePnl has
\* returned
Profiles ==
  <<[fills |-> <<[BaseFill EXCEPT !.side = "A", !.closedPnl = 30,
                                 !.builderFee = "1"]>>,
    currentEquity |-> 5, fails |-> "no"],
   [fills |-> <<[BaseFill EXCEPT !.builderFee = "1", !.closedPnl = 0],
                [BaseFill EXCEPT !.side = "A", !.closedPnl = -20]>>,
    currentEquity |-> 5, fails |-> "no"],
   [fills |-> <<>>, currentEquity |-> 5, fails |-> "no"],
   [fills |-> <<>>, currentEquity |-> 0, fails |-> "pnl"],
   [fills |-> <<[BaseFill EXCEPT !.closedPnl = 10]>>,
    currentEquity |-> 5, fails |-> "volume"]>>

\* the account behind the k-th address
ProfileOf(k) == Profiles[((k - 1) % Len(Profiles)) + 1]

Accounts ==
  [a \in {AllAddresses[i] : i \in 1..MaxUsers} |->
     ProfileOf(CHOOSE i \in 1..MaxUsers : AllAddresses[i] = a)]

\* the registries a sequence of registrations leaves: the lower-case
\* addresses, each at most once, in any order
Registries ==
  UNION {{s \in [1..k -> {AllAddresses[i] : i \in 1..MaxUsers}] :
            \A i, j \in 1..k : s[i] = s[j] => i = j} : k \in 0..MaxUsers}

(***************************************************************************)
(* TradeService.getTrades                                                  *)
(***************************************************************************)
\* String(value) on fill[key]: hash is a string, oid and tid are numbers
StringOf(key, value) == IF key = "hash" THEN value ELSE ToString(value)

RECURSIVE CollapseLoop_noAbsentCheck(_, _, _, _)
\* mutant: a missing key is not let through but collapsed as "undefined"
CollapseLoop_noAbsentCheck(sorted, i, seen, key) ==
  IF i > Len(sorted) THEN <<>>
  ELSE LET value == sorted[i][key]
           id == IF value = Absent THEN "undefined" ELSE StringOf(key, value[1])
       IN IF id \in seen
            THEN CollapseLoop_noAbsentCheck(sorted, i + 1, seen, key)
            ELSE <<sorted[i]>>
                 \o CollapseLoop_noAbsentCheck(sorted, i + 1, seen \cup {id}, key)

RECURSIVE CollapseLoop(_, _, _, _)
\* sorted.filter(fill => { ... }) with the Set seen
CollapseLoop(sorted, i, seen, key) ==
  IF i > Len(sorted) THEN <<>>
  ELSE LET value == sorted[i][key] IN
       IF value = Absent
         THEN <<sorted[i]>> \o CollapseLoop(sorted, i + 1, seen, key)
       ELSE IF StringOf(key, value[1]) \in seen
         THEN CollapseLoop(sorted, i + 1, seen, key)
       ELSE <<sorted[i]>>
            \o CollapseLoop(sorted, i + 1, seen \cup {StringOf(key, value[1])}, key)

\* the collapse of getTrades: sort by time, keep the first fill per key value
Collapse(fills, key) == CollapseLoop(SortFills(fills), 1, {}, key)

\* TradeService.normalizeFill
normalizeFill(fill) ==
  [timeMs |-> fill.time, coin |-> fill.coin,
   side |-> IF fill.side = "B" THEN "buy" ELSE "sell",
   px |-> fill.px, sz |-> fill.sz, fee |-> fill.fee, closedPnl |-> fill.closedPnl,
   builder |-> IF getBuilderAddress(fill) /= NoBuilder
                 THEN Given(getBuilderAddress(fill))
               ELSE IF fill.builderFee /= NoFee /\ ParseFloat(fill.builderFee) > 0
                 THEN Given("builder")
               ELSE Absent]

\* the fills of getTrades before normalization; fills is what the cache hands
\* over, t is Date.now()
filteredFills(fills, t, params, targetBuilder) ==
  LET fromMs == IF params.fromMs = Absent THEN 0 ELSE params.fromMs[1]
      toMs == IF params.toMs = Absent THEN t ELSE params.toMs[1]
      inWindow == SelectSeq(fills, LAMBDA f : f.time >= fromMs /\ f.time <= toMs)
      wanted == IF params.builderOnly = Given(TRUE)
                  THEN filterBuilderFills(inWindow, targetBuilder)
                  ELSE inWindow
  IN IF params.collapseBy /= Absent
       THEN Collapse(wanted, params.collapseBy[1])
       ELSE wanted

\* TradeService.getTrades: the trades of the response
getTrades(fills, t, params, targetBuilder) ==
  LET kept == filteredFills(fills, t, params, targetBuilder)
  IN [i \in 1..Len(kept) |-> normalizeFill(kept[i])]

\* hash, oid and tid of a fill as the exchange reports them; a field may be
\* missing
FillIds ==
  {[hash |-> Absent, oid |-> Given(1), tid |-> Given(1)],
   [hash |-> Given("h1"), oid |-> Given(1), tid |-> Given(2)],
   [hash |-> Given("h1"), oid |-> Given(2), tid |-> Absent],
   [hash |-> Given("h2"), oid |-> Absent, tid |-> Given(1)]}

TradeFills ==
  {[time |-> t, coin |-> "BTC", side |-> "B", sz |-> 1, px |-> t, closedPnl |-> 1,
    fee |-> 1, builder |-> [form |-> "absent", b |-> ""], builderFee |-> f,
    hash |-> id.hash, oid |-> id.oid, tid |-> id.tid] :
     t \in {1, 2}, f \in {NoFee, "1"}, id \in FillIds}

\* the queries GET /v1/trades accepts
TradesParams ==
  {[fromMs |-> w[1], toMs |-> w[2], builderOnly |-> b, collapseBy |-> c] :
     w \in {<<Absent, Absent>>, <<Given(2), Given(2)>>},
     b \in {Absent, Given(TRUE)},
     c \in {Absent, Given("hash"), Given("oid"), Given("tid")}}

\* GET /v1/trades on the fills the cache hands over
GetTrades(params) ==
  /\ tout.op = "none"
  /\ tout' = [op |-> "getTrades", params |-> params,
              fills |-> filteredFills(tin.fills, now, params, tin.targetBuilder),
              trades |-> getTrades(tin.fills, now, params, tin.targetBuilder)]
  /\ UNCHANGED <<now, limiterVars, cacheVars, posVars, builderVars, pnlVars,
                 boardVars, tin, http>>

(***************************************************************************)
(* The HTTP routes over the services, the cache and the exchange           *)
(***************************************************************************)
ApiUser == "0xa"
ApiTarget == "0xt"

\* the fill the exchange books at time t
ApiFill(t) == [BaseFill EXCEPT !.time = t, !.side = "A", !.closedPnl = 3]

\* marginSummary.accountValue of the account: 5 and what its fills realized
Equity == 5 + SumClosedPnl(upstream)

\* the fills behind a fetched list of positions of the exchange's stream
FillsOf(data) == [i \in 1..Len(data) |-> upstream[data[i]]]

Requests == 1..MaxRequests

\* the queries of the three routes: no coin, fromMs omitted, toMs given or not
ApiParams ==
  {[fromMs |-> Absent, toMs |-> t, builderOnly |-> Absent,
    maxStartCapital |-> Absent, collapseBy |-> Absent] : t \in {Absent, Given(2)}}

ApiFillsKeys == {fillsCacheKey(ApiUser, NoCoin, 0, t) : t \in 0..MaxTime}
ApiClearinghouseKeys == {<<ToLowerCase(ApiUser)>>}

NoRequest ==
  [route |-> "none", params |-> CHOOSE p \in ApiParams : TRUE, at |-> 0,
   pc |-> "idle", fromMs |-> 0, toMs |-> 0, key |-> <<>>, cursor |-> 0,
   endTime |-> 0, acc |-> <<>>, window |-> <<>>, equity |-> 0,
   samples |-> {}, failed |-> FALSE, status |-> 0, body |-> <<>>]

\* the handler returns: Fastify replies 200 with the returned object
Replied(rec, body) == [rec EXCEPT !.pc = "done", !.status = 200, !.body = body]

\* new Error(`Failed to fetch ...: ${error}`): an Error without statusCode
FetchError == [name |-> "Error", message |-> "Failed to fetch", statusCode |-> Absent]

\* setErrorHandler for an error without validation:
\* reply.status(error.statusCode || 500).send({error: error.name, message})
ErrorReply(error) ==
  [status |-> IF error.statusCode = Absent THEN 500 ELSE error.statusCode[1],
   body |-> [error |-> error.name, message |-> error.message]]

\* the handler rejects: the error handler replies
Rejected(rec, error) ==
  [rec EXCEPT !.pc = "done", !.failed = TRUE,
              !.status = ErrorReply(error).status,
              !.body = ErrorReply(error).body]

\* the rest of calculatePnl once equityAtFromMs is known
PnlResultOf(rec, equityAtFromMs) ==
  LET m == PnlLoop(getRawFills(FillsOf(rec.window), rec.fromMs, rec.toMs), 1,
                   PnlStart, rec.params.builderOnly, ApiTarget)
      maxStartCapital == IF rec.params.maxStartCapital = Absent
                           THEN defaultMaxStartCapital
                           ELSE rec.params.maxStartCapital[1]
      effectiveCapital == Min(Max(equityAtFromMs, MinCapital), maxStartCapital)
  IN [realizedPnl |-> m.realizedPnl,
      returnPct |-> ReturnPct(m.realizedPnl, effectiveCapital),
      feesPaid |-> m.feesPaid,
      tradeCount |-> m.tradeCount,
      tainted |-> PnlTainted(rec.params.builderOnly, m),
      effectiveCapital |-> effectiveCapital]

\* fillsCache.set(key, {data, timestamp: Date.now()}); pruneCache()
StoredFills(fc, cc, key, data, r) ==
  [f |-> Pruned([fc EXCEPT ![key] = [data |-> data, timestamp |-> now, by |-> r]],
                now, fillsTtlMs),
   c |-> Pruned(cc, now, clearinghouseTtlMs)]

\* the identity of the cache entry a fills read was served from
SampleOf(key, entry) == <<key, entry.timestamp, entry.by>>

\* getApproximateEquityAt after its getRawFills(atTimeMs, Date.now())
AfterSince(rec, data, id, fc, cc) ==
  [rec |-> Replied([rec EXCEPT !.samples = @ \cup {id}],
             PnlResultOf(rec,
               Max(rec.equity
                     - SumClosedPnl(getRawFills(FillsOf(data), rec.fromMs, now)),
                   MinCapital))),
   f |-> fc, c |-> cc]

\* getApproximateEquityAt after the clearinghouse state is there
AfterClearinghouse(r, rec, equity, fc, cc) ==
  LET got == [rec EXCEPT !.equity = equity]
      key == fillsCacheKey(ApiUser, NoCoin, rec.fromMs, now)
  IN IF rec.fromMs >= now
       THEN [rec |-> Replied(got, PnlResultOf(got, equity)), f |-> fc, c |-> cc]
     ELSE IF IsFresh(fc[key], now, fillsTtlMs)
       THEN AfterSince(got, fc[key].data, SampleOf(key, fc[key]), fc, cc)
     ELSE [rec |-> [got EXCEPT !.pc = "since", !.key = key,
                               !.cursor = rec.fromMs, !.endTime = now,
                               !.acc = <<>>],
           f |-> fc, c |-> cc]

\* calculatePnl after its getRawFills(fromMs, toMs): the loop over the fills,
\* then getApproximateEquityAt up to its first await
AfterWindowPnl(r, rec, data, id, fc, cc) ==
  LET got == [rec EXCEPT !.window = data, !.samples = @ \cup {id}]
      key == <<ToLowerCase(ApiUser)>>
  IN IF IsFresh(cc[key], now, clearinghouseTtlMs)
       THEN AfterClearinghouse(r, got, cc[key].data[1], fc, cc)
       ELSE [rec |-> [got EXCEPT !.pc = "clearinghouse"], f |-> fc, c |-> cc]

\* the handler after the fills of its window are there
AfterWindow(r, rec, data, id, fc, cc) ==
  CASE rec.route = "trades" ->
         [rec |-> Replied([rec EXCEPT !.samples = @ \cup {id}],
                    [trades |-> getTrades(FillsOf(data), rec.at, rec.params,
                                          ApiTarget)]),
          f |-> fc, c |-> cc]
    [] rec.route = "positions" ->
         [rec |-> Replied([rec EXCEPT !.samples = @ \cup {id}],
                    [positions |-> getPositionHistory(FillsOf(data), rec.fromMs,
                                     rec.toMs, FALSE, ApiTarget)]),
          f |-> fc, c |-> cc]
    [] rec.route = "pnl" -> AfterWindowPnl(r, rec, data, id, fc, cc)

\* a fills fetch has its list: the cache stores it and the handler goes on
FetchDone(r, rec, data) ==
  LET st == StoredFills(fillsCache, clearinghouseCache, rec.key, data, r)
      id == <<rec.key, now, r>>
  IN IF rec.pc = "since"
       THEN AfterSince(rec, data, id, st.f, st.c)
       ELSE AfterWindow(r, rec, data, id, st.f, st.c)

\* the three variables an HTTP step writes
Becomes(r, next) ==
  /\ http' = [http EXCEPT ![r] = next.rec]
  /\ fillsCache' = next.f
  /\ clearinghouseCache' = next.c

\* GET /v1/trades, /v1/positions/history or /v1/pnl arrives: the handler runs
\* to its first await
Arrives(r, route, params) ==
  /\ http[r].pc = "idle"
  /\ \A o \in Requests : o < r => http[o].pc /= "idle"
  /\ LET toMs == IF params.toMs = Absent THEN now ELSE params.toMs[1]
         key == fillsCacheKey(ApiUser, NoCoin, 0, toMs)
         rec == [NoRequest EXCEPT !.route = route, !.params = params,
                                  !.at = now, !.fromMs = 0, !.toMs = toMs,
                                  !.key = key]
     IN IF IsFresh(fillsCache[key], now, fillsTtlMs)
          THEN Becomes(r, AfterWindow(r, rec, fillsCache[key].data,
                                      SampleOf(key, fillsCache[key]),
                                      fillsCache, clearinghouseCache))
        ELSE IF LoopTest(0, toMs)
          THEN Becomes(r, [rec |-> [rec EXCEPT !.pc = "fills", !.cursor = 0,
                                               !.endTime = toMs, !.acc = <<>>],
                           f |-> fillsCache, c |-> clearinghouseCache])
        ELSE Becomes(r, FetchDone(r, rec, <<>>))
  /\ UNCHANGED <<now, limiterVars, upstream, rd, posVars, builderVars, pnlVars,
                 boardVars, tradeVars>>

\* the exchange answers the pending userFillsByTime request of r
FillsAnswer(r) ==
  /\ http[r].pc \in {"fills", "since"}
  /\ LET rec == http[r]
         fills == UserFillsByTime(rec.cursor, rec.endTime)
     IN IF Len(fills) = 0
          THEN Becomes(r, FetchDone(r, rec, SortByTime(rec.acc)))
          ELSE LET acc == rec.acc \o fills
                   cursor == upstream[fills[Len(fills)]].time + 1
               IN IF Len(fills) < MAX_FILLS_PER_REQUEST \/ ~LoopTest(cursor, rec.endTime)
                    THEN Becomes(r, FetchDone(r, rec, SortByTime(acc)))
                    ELSE Becomes(r, [rec |-> [rec EXCEPT !.acc = acc,
                                                         !.cursor = cursor],
                                     f |-> fillsCache, c |-> clearinghouseCache])
  /\ UNCHANGED <<now, limiterVars, upstream, rd, posVars, builderVars, pnlVars,
                 boardVars, tradeVars>>

\* the exchange answers the pending clearinghouseState request of r
ClearinghouseAnswer(r) ==
  /\ http[r].pc = "clearinghouse"
  /\ Becomes(r, AfterClearinghouse(r, http[r], Equity, fillsCache,
               [clearinghouseCache EXCEPT ![<<ToLowerCase(ApiUser)>>] =
                  [data |-> <<Equity>>, timestamp |-> now, by |-> r]]))
  /\ UNCHANGED <<now, limiterVars, upstream, rd, posVars, builderVars, pnlVars,
                 boardVars, tradeVars>>

\* the pending upstream request of r fails (transport failure, non-2xx): the
\* data source throws, nothing catches up to the route, the error handler runs
UpstreamFails(r) ==
  /\ http[r].pc \in {"fills", "since", "clearinghouse"}
  /\ http' = [http EXCEPT ![r] = Rejected(http[r], FetchError)]
  /\ UNCHANGED <<now, limiterVars, cacheVars, posVars, builderVars, pnlVars,
                 boardVars, tradeVars>>

\* the account trades: the exchange books a fill at the current time
ExchangeTrade ==
  /\ Len(upstream) < MaxExchangeFills
  /\ upstream' = Append(upstream, ApiFill(now))
  /\ UNCHANGED <<now, limiterVars, fillsCache, clearinghouseCache, rd, posVars,
                 svcVars>>

(***************************************************************************)
(* PositionService.getPositionHistory over the fills of two coins          *)
(***************************************************************************)
\* fills of two coins over two milliseconds, the price moving with the time,
\* attributed to the target builder by their fee or not at all
HistoryFills ==
  {[BaseFill EXCEPT !.time = t, !.coin = c, !.side = s, !.px = t,
                    !.builderFee = f] :
     t \in {1, 2}, c \in {"BTC", "ETH"}, s \in {"B", "A"}, f \in {NoFee, "1"}}

\* the lists the cache hands over: getUserFills returns them ascending in time
HistoryLists ==
  {s \in UNION {[1..k -> HistoryFills] : k \in 0..MaxHistFills} :
     \A i \in 1..(Len(s) - 1) : s[i].time <= s[i + 1].time}

\* GET /v1/positions/history?fromMs&toMs&builderOnly without a coin
PositionHistory(fromMs, toMs, builderOnly) ==
  /\ ~pout.done
  /\ pout' = [done |-> TRUE, fromMs |-> fromMs, toMs |-> toMs,
              builderOnly |-> builderOnly,
              states |-> getPositionHistory(pin.fills, fromMs, toMs,
                           builderOnly, pin.targetBuilder)]
  /\ UNCHANGED <<now, limiterVars, cacheVars, pin, svcVars>>

(***************************************************************************)
(* getLeaderboard step by step, with registrations in between              *)
(***************************************************************************)
\* a getLeaderboard call in flight: users is its local array, k the position
\* of its loop
NoBoardRun ==
  [op |-> "none", params |-> CHOOSE p \in BoardParams : TRUE, users |-> <<>>,
   k |-> 0, userMetrics |-> <<>>, entries |-> <<>>]

\* the addresses registered and unregistered while a call is in flight
RunAddresses == {"0xA", "0xb", "0xc"}

\* what a step of the leaderboard service leaves alone
boardFrame ==
  <<now, limiterVars, cacheVars, posVars, builderVars, pnlVars, accounts,
    tradeVars, http>>

\* getRegisteredUsers(): Array.from(this.registeredUsers)
getRegisteredUsers == registeredUsers

\* mutant: the loop walks the registry itself, not the array copied from it
LoopUsers_live(call) == registeredUsers

\* for (const user of users): the array the loop of the call walks
LoopUsers(call) == call.users

\* getLeaderboard is called: the registry is copied; an empty registry is
\* answered at once, else the loop awaits calculatePnl for the first user
LeaderboardStart(params) ==
  /\ lb.op = "none"
  /\ lb' = [NoBoardRun EXCEPT
              !.op = IF Len(getRegisteredUsers) = 0 THEN "done" ELSE "running",
              !.params = params, !.users = getRegisteredUsers, !.k = 1]
  /\ UNCHANGED <<registeredUsers, boardFrame>>

\* the awaits of one pass of the loop resolve (or reject): the user's record
\* is pushed or the user is skipped; after the last user the metrics are
\* sorted, cut and ranked
LeaderboardUser ==
  /\ lb.op = "running"
  /\ LET users == LoopUsers(lb)
         got == IF lb.k <= Len(users)
                  THEN lb.userMetrics
                         \o UserMetric(users[lb.k], accounts[users[lb.k]],
                                       lb.params, now)
                  ELSE lb.userMetrics
     IN IF lb.k + 1 <= Len(users)
          THEN lb' = [lb EXCEPT !.k = @ + 1, !.userMetrics = got]
          ELSE lb' = [lb EXCEPT !.k = @ + 1, !.userMetrics = got, !.op = "done",
                        !.entries = Ranked(SortMetrics(got),
                                      IF lb.params.limit = Absent THEN DefaultLimit
                                      ELSE lb.params.limit[1])]
  /\ UNCHANGED <<registeredUsers, boardFrame>>

\* POST /v1/users while the call runs
PostUsers(user) ==
  /\ registeredUsers' = registerUser(registeredUsers, user).users
  /\ registeredUsers' /= registeredUsers
  /\ UNCHANGED <<lb, boardFrame>>

\* DELETE /v1/users/:user while the call runs
DeleteUsers(user) ==
  /\ registeredUsers' = unregisterUser(registeredUsers, user).users
  /\ registeredUsers' /= registeredUsers
  /\ UNCHANGED <<lb, boardFrame>>

(***************************************************************************)
(* Specifications                                                          *)
(***************************************************************************)
InitLimiter ==
  /\ now = 0
  /\ LimiterConstructed
  /\ upstream = <<>>
  /\ CacheConstructed
  /\ PositionIdle
  /\ ServicesIdle

NextLimiter ==
  \/ \E p \in Callers, w \in Weights : Acquire(p, w)
  \/ \E p \in Callers : AcquireWake(p)
  \/ \E p \in Callers : AcquireReturn(p)
  \/ \E p \in Callers : Cancel(p)
  \/ GetAvailableTokens
  \/ Tick

SpecLimiter == InitLimiter /\ [][NextLimiter]_vars

\* one fill per millisecond, coins alternating
CacheStream ==
  [i \in 1..MaxUpFills |->
     [time |-> Min(i, MaxFillTime), coin |-> IF i % 2 = 1 THEN "BTC" ELSE "ETH"]]

\* the cache with concurrent readers over one upstream stream
InitCache ==
  /\ now = 0
  /\ LimiterConstructed
  /\ upstream = CacheStream
  /\ CacheConstructed
  /\ PositionIdle
  /\ ServicesIdle

NextCache ==
  \/ \E r \in Readers, q \in FillsQueries : GetFills(r, q)
  \/ \E r \in Readers, q \in ClearinghouseQueries : GetClearinghouseState(r, q)
  \/ \E r \in Readers : FillsResponse(r)
  \/ \E r \in Readers : ClearinghouseResponse(r)
  \/ \E r \in Readers : UpstreamError(r)
  \/ Tick

SpecCache == InitCache /\ [][NextCache]_vars

\* one getUserFills call at a time, over every upstream stream
InitPaginator ==
  /\ now = 0
  /\ LimiterConstructed
  /\ upstream \in UpstreamStreams(MaxUpFills)
  /\ CacheConstructed
  /\ PositionIdle
  /\ ServicesIdle

NextPaginator ==
  \/ \E q \in DirectQueries : GetUserFills(1, q)
  \/ FillsResponse(1)
  \/ UpstreamError(1)

SpecPaginator == InitPaginator /\ [][NextPaginator]_vars

\* reconstructPositionHistory over every stream of one coin's fills
InitPosition ==
  /\ now = 0
  /\ LimiterConstructed
  /\ upstream = <<>>
  /\ CacheConstructed
  /\ \/ \E k \in 0..MaxFills : \E s \in [1..k -> PosFills] :
          /\ IsTimeAscending(s)
          /\ pin = [fills |-> s, targetBuilder |-> "0xt"]
     \/ \E s \in [1..MaxUnitFills -> UnitFills] :
          pin = [fills |-> [i \in 1..MaxUnitFills |->
                              [s[i] EXCEPT !.time = IF i = 1 THEN 1 ELSE 2]],
                 targetBuilder |-> "0xt"]
  /\ pout = NoOutput
  /\ ServicesIdle

NextPosition ==
  \E w \in PosWindows, builderOnly \in BOOLEAN : Reconstruct(w[1], w[2], builderOnly)

SpecPosition == InitPosition /\ [][NextPosition]_vars

\* the builder filter constructed from the environment, over one fill of any
\* form or over a list of fills
InitBuilder ==
  /\ now = 1
  /\ LimiterConstructed
  /\ upstream = <<>>
  /\ CacheConstructed
  /\ PositionIdle
  /\ TradesIdle
  /\ ApiIdle
  /\ PnlIdle
  /\ BoardIdle
  /\ bout = NoBuilderCall
  /\ \/ \E f \in AttrFills, raw \in TargetConfigs :
          bin = [fills |-> <<f>>, raw |-> raw,
                 targetBuilder |-> BuilderFilterTarget(raw)]
     \/ \E k \in 0..MaxListFills : \E s \in [1..k -> ListFills] :
          \E raw \in {NoBuilder, "0xT"} :
            bin = [fills |-> s, raw |-> raw,
                   targetBuilder |-> BuilderFilterTarget(raw)]

NextBuilder ==
  \/ \E i \in 1..MaxListFills : IsBuilderFill(i)
  \/ FilterBuilderFills
  \/ DetectTaint
  \/ IsAnyLifecycleTainted
  \/ \E builderOnly \in BOOLEAN : GetPositionHistory(builderOnly)
  \/ \E builderOnly \in {Given(TRUE), Given(FALSE), Absent} :
       CalculatePnlPlain(builderOnly)

SpecBuilder == InitBuilder /\ [][NextBuilder]_vars

\* an account: its fills in time order and its current equity
InitPnl ==
  /\ now = 3
  /\ LimiterConstructed
  /\ upstream = <<>>
  /\ CacheConstructed
  /\ PositionIdle
  /\ TradesIdle
  /\ ApiIdle
  /\ BuilderIdle
  /\ BoardIdle
  /\ qout = NoPnlCall
  /\ \E k \in 0..MaxPnlFills : \E s \in [1..k -> PnlFills] :
       \E e \in {0, 5} :
         /\ IsTimeAscending(s)
         /\ qin = [fills |-> s, currentEquity |-> e, targetBuilder |-> "0xt"]

NextPnl == \E params \in PnlParams : CalculatePnl(params)

SpecPnl == InitPnl /\ [][NextPnl]_vars

\* one leaderboard query over any registry the registrations can leave
InitLeaderboard ==
  /\ now = 3
  /\ LimiterConstructed
  /\ upstream = <<>>
  /\ CacheConstructed
  /\ PositionIdle
  /\ TradesIdle
  /\ ApiIdle
  /\ BuilderIdle
  /\ PnlIdle
  /\ registeredUsers \in Registries
  /\ accounts = Accounts
  /\ lb = NoBoardCall

NextLeaderboard == \E params \in BoardParams : GetLeaderboard(params)

SpecLeaderboard == InitLeaderboard /\ [][NextLeaderboard]_vars

\* the registry from its construction on, under POST and DELETE /v1/users
InitRegistry ==
  /\ now = 0
  /\ LimiterConstructed
  /\ upstream = <<>>
  /\ CacheConstructed
  /\ PositionIdle
  /\ TradesIdle
  /\ ApiIdle
  /\ BuilderIdle
  /\ PnlIdle
  /\ registeredUsers = <<>>
  /\ accounts = Accounts
  /\ lb = NoBoardCall

NextRegistry ==
  \/ \E user \in Addresses : RegisterUser(user)
  \/ \E user \in Addresses : UnregisterUser(user)

SpecRegistry == InitRegistry /\ [][NextRegistry]_vars

\* one getTrades call over every list of fills the cache can hand over
InitTrades ==
  /\ now = 3
  /\ LimiterConstructed
  /\ upstream = <<>>
  /\ CacheConstructed
  /\ PositionIdle
  /\ BuilderIdle
  /\ PnlIdle
  /\ BoardIdle
  /\ ApiIdle
  /\ \E k \in 0..MaxTradeFills : \E s \in [1..k -> TradeFills] :
       /\ IsTimeAscending(s)
       /\ tin = [fills |-> s, targetBuilder |-> "0xt"]
  /\ tout = [op |-> "none"]

NextTrades == \E params \in TradesParams : GetTrades(params)

SpecTrades == InitTrades /\ [][NextTrades]_vars

\* HTTP requests of one account over the cache while the account trades
InitApi ==
  /\ now = 1
  /\ LimiterConstructed
  /\ upstream = <<>>
  /\ fillsCache = [k \in ApiFillsKeys |-> NoEntry]
  /\ clearinghouseCache = [k \in ApiClearinghouseKeys |-> NoEntry]
  /\ rd = [r \in Readers |-> IdleRead]
  /\ PositionIdle
  /\ BuilderIdle
  /\ PnlIdle
  /\ BoardIdle
  /\ TradesIdle
  /\ http = [r \in Requests |-> NoRequest]

NextApi ==
  \/ \E r \in Requests, route \in {"trades", "positions", "pnl"},
        params \in ApiParams : Arrives(r, route, params)
  \/ \E r \in Requests : FillsAnswer(r)
  \/ \E r \in Requests : ClearinghouseAnswer(r)
  \/ \E r \in Requests : UpstreamFails(r)
  \/ ExchangeTrade
  \/ Tick

SpecApi == InitApi /\ [][NextApi]_vars

\* the limiter right after acquire(maxWeight) on the new bucket has returned:
\* the bucket is empty, the window that follows is watched
InitRefill ==
  /\ now = 0
  /\ tokens = 0
  /\ lastRefill = 0
  /\ acq = [p \in Callers |-> Idle]
  /\ recent = [i \in 0..(windowMs - 1) |-> IF i = 0 THEN maxWeight ELSE 0]
  /\ burst = NoBurst
  /\ upstream = <<>>
  /\ CacheConstructed
  /\ PositionIdle
  /\ ServicesIdle

NextRefill ==
  \/ \E p \in Callers, w \in Weights : Acquire(p, w)
  \/ \E p \in Callers : AcquireWake(p)
  \/ \E p \in Callers : AcquireReturn(p)
  \/ GetAvailableTokens
  \/ Elapse

SpecRefill == InitRefill /\ [][NextRefill]_vars

\* finitely many acquire calls (one per caller, of any weight up to
\* maxWeight + 1) while time advances and the timers fire
NextOutstanding ==
  \/ \E p \in Callers, w \in 1..(maxWeight + 1) : AcquireEarly(p, w)
  \/ \E p \in Callers : AcquireWake(p)
  \/ Advance

SpecOutstanding ==
  /\ InitLimiter
  /\ [][NextOutstanding]_vars
  /\ WF_vars(Advance)
  /\ \A p \in Callers : WF_vars(AcquireWake(p))

\* one getLeaderboard call over a registry that changes while it runs
InitBoardRun ==
  /\ now = 3
  /\ LimiterConstructed
  /\ upstream = <<>>
  /\ CacheConstructed
  /\ PositionIdle
  /\ TradesIdle
  /\ ApiIdle
  /\ BuilderIdle
  /\ PnlIdle
  /\ registeredUsers = <<"0xa", "0xb">>
  /\ accounts = Accounts
  /\ lb = NoBoardRun

NextBoardRun ==
  \/ \E params \in BoardParams : LeaderboardStart(params)
  \/ LeaderboardUser
  \/ \E user \in RunAddresses : PostUsers(user)
  \/ \E user \in RunAddresses : DeleteUsers(user)

SpecBoardRun == InitBoardRun /\ [][NextBoardRun]_vars

\* position histories of one account trading two coins
InitHistory ==
  /\ now = 3
  /\ LimiterConstructed
  /\ upstream = <<>>
  /\ CacheConstructed
  /\ pin \in [fills : HistoryLists, targetBuilder : {"0xt"}]
  /\ pout = NoOutput
  /\ ServicesIdle

NextHistory ==
  \E fromMs \in 0..2, toMs \in 1..3, builderOnly \in BOOLEAN :
    PositionHistory(fromMs, toMs, builderOnly)

SpecHistory == InitHistory /\ [][NextHistory]_vars

(***************************************************************************)
(* Properties                                                              *)
(***************************************************************************)
InFlight(r) == rd[r].pc = "post"
Returned(r) == rd[r].pc = "done"
SameKey(a, b) ==
  /\ rd[a].q.kind = rd[b].q.kind
  /\ rd[a].q.kind \in {"fills", "clearinghouse"}
  /\ KeyOf(rd[a].q) = KeyOf(rd[b].q)

\* C1: single-flight.  No two reads of the same key have their fetchers in
\* flight at the same time: concurrent reads that find the entry missing or
\* expired share one fetcher invocation.
C1_SingleFlight ==
  \A a, b \in Readers :
    (a /= b /\ InFlight(a) /\ InFlight(b)) => ~SameKey(a, b)

\* C2: of two successful reads r1, r2 of one key with r2.end - r1.start < TTL
\* at most one invoked the fetcher (the other was served by that invocation).
\* r2.end <= now holds in every state in which r2 has returned, so
\* now - r1.start < TTL implies r2.end - r1.start < TTL; start is kept for
\* the reads that invoked the fetcher.
C2_OneFetchWithinTtl ==
  \A r1, r2 \in Readers :
    (r1 /= r2 /\ Returned(r1) /\ Returned(r2) /\ SameKey(r1, r2)
       /\ rd[r1].miss /\ now - rd[r1].start < TtlOf(rd[r1].q))
    => ~rd[r2].miss

\* C3: a read served from an existing entry (a hit) returned an entry whose
\* age now - timestamp was below the TTL of its cache at the moment of return.
C3_HitIsFresh ==
  \A r \in Readers :
    (Returned(r) /\ ~rd[r].miss)
    => (rd[r].hitAge >= 0 /\ rd[r].hitAge < TtlOf(rd[r].q))

\* a hit on an entry one tick short of its TTL, in each cache
C3_Witness ==
  /\ \E r \in Readers : Returned(r) /\ ~rd[r].miss /\ rd[r].q.kind = "fills"
                         /\ rd[r].hitAge = fillsTtlMs - 1
  /\ \E r \in Readers : Returned(r) /\ rd[r].miss /\ rd[r].start > 0
                         /\ rd[r].q.kind = "fills"

\* C4: in every interval of length windowMs the weight admitted by acquire
\* is at most maxWeight (recent holds the interval of windowMs ms ending now).
C4_WindowQuota ==
  SumOver(recent, 0..(windowMs - 1)) <= maxWeight

\* C5: acquire never partially consumes: tokens stays within 0..maxWeight,
\* and tokens only ever drops by the weight of a call that returns in that
\* step, taken from a bucket that held at least that weight.
C5_NoPartialConsume ==
  /\ [](tokens >= 0 /\ tokens <= maxWeight)
  /\ [][tokens' < tokens =>
          \E p \in Callers :
            /\ acq[p].pc /= "acquired" /\ acq'[p].pc = "acquired"
            /\ Refill(tokens, lastRefill, now)[1] >= acq'[p].weight
            /\ tokens' = Refill(tokens, lastRefill, now)[1] - acq'[p].weight
            /\ \A o \in Callers \ {p} : acq'[o] = acq[o]]_vars

\* a call that waited has taken the whole bucket
C5_Witness ==
  \E p \in Callers : acq[p].pc = "acquired" /\ acq[p].weight = maxWeight
                      /\ tokens = 0 /\ now > 0

C7_CancelledNeverAcquires ==
  \A p \in Callers : acq[p].cancelled => acq[p].pc /= "acquired"

\* C8: a fetch goes on to another upstream call exactly after a batch of
\* MAX_FILLS_PER_REQUEST fills: it does not return right after a full batch,
\* and it issues no call after a shorter one.
C8_PaginatorBoundary ==
  \A r \in Readers :
    (rd[r].q.kind /= "clearinghouse" /\ rd[r].lastLen >= 0) =>
      /\ Returned(r) => rd[r].lastLen < MAX_FILLS_PER_REQUEST
      /\ InFlight(r) => rd[r].lastLen = MAX_FILLS_PER_REQUEST

\* C9: a fills read one of whose upstream calls failed fails as a whole: it
\* returns no list, and no cache entry was written by it.
C9_ErrorAbortsFetch ==
  \A r \in Readers :
    rd[r].errored =>
      /\ rd[r].pc = "failed"
      /\ rd[r].result = <<>>
      /\ \A k \in FillsKeys : fillsCache[k].by /= r
      /\ \A k \in ClearinghouseKeys : clearinghouseCache[k].by /= r

\* a fetch that failed on its second page, over an older entry of its key
C9_Witness ==
  \E r \in Readers :
    /\ rd[r].pc = "failed" /\ rd[r].q.kind = "fills"
    /\ rd[r].acc /= <<>>
    /\ fillsCache[KeyOf(rd[r].q)] /= NoEntry
    /\ now - fillsCache[KeyOf(rd[r].q)].timestamp >= fillsTtlMs

\* the fills at the given positions of the input that count under the mode
Counted(f) == ~pout.builderOnly \/ isBuilderFill(f, pin.targetBuilder)

RECURSIVE SignedSum(_, _)
\* buys positive, sells negative, over the positions S of the sorted input
SignedSum(fills, S) ==
  IF S = {} THEN 0
  ELSE LET i == CHOOSE j \in S : TRUE
       IN (IF fills[i].side = "B" THEN fills[i].sz ELSE -fills[i].sz)
          + SignedSum(fills, S \ {i})

\* C10 as stated: every emitted state's netSize is the signed sum of the
\* counted fills with time up to and including the time of the emitting fill.
C10_NetSizeByTime ==
  pout.done =>
    \A i \in 1..Len(pout.states) :
      pout.states[i].netSize =
        SignedSum(pin.fills,
          {j \in 1..Len(pin.fills) :
             pin.fills[j].time <= pout.states[i].timeMs /\ Counted(pin.fills[j])})

\* C10 amended: every emitted state's netSize is the signed sum of the
\* counted fills up to and including the emitting fill in processing order
\* (time ascending, equal times in order of delivery).
C10_NetSizeByOrder ==
  pout.done =>
    \A i \in 1..Len(pout.states) :
      pout.states[i].netSize =
        SignedSum(SortFills(pin.fills),
          {j \in 1..pout.states[i].idx : Counted(SortFills(pin.fills)[j])})

\* builder-only reconstruction over buys, a sell and an uncounted fill,
\* with two fills at one time
C10_Witness ==
  /\ pout.done /\ pout.builderOnly /\ Len(pout.states) >= 2
  /\ \E j \in 1..Len(pin.fills) : ~Counted(pin.fills[j])
  /\ \E j \in 1..Len(pin.fills) : Counted(pin.fills[j]) /\ pin.fills[j].side = "A"
  /\ \E j \in 1..(Len(pin.fills) - 1) : pin.fills[j].time = pin.fills[j + 1].time

\* C11: every emitted position state has avgEntryPx >= 0, and every emitted
\* state with netSize = 0 has avgEntryPx = 0.
C11_FlatEntryIsZero ==
  pout.done =>
    \A i \in 1..Len(pout.states) :
      /\ pout.states[i].avgEntryPx[1] >= 0
      /\ pout.states[i].netSize = 0 => pout.states[i].avgEntryPx[1] = 0

\* the running size after the first k fills of the sorted input, under the mode
RunSize(sorted, k) ==
  SignedSum(sorted, {j \in 1..k : Counted(sorted[j])})

\* the position of the counted fill that moved the running size from 0 to
\* non-zero, last at or before the emitting fill idx
LifecycleStart(sorted, idx) ==
  CHOOSE j \in 1..idx :
    /\ Counted(sorted[j]) /\ RunSize(sorted, j - 1) = 0
    /\ \A k \in (j + 1)..idx :
         ~(Counted(sorted[k]) /\ RunSize(sorted, k - 1) = 0)

\* C13: with builderOnly, an emitted state is tainted iff a builder fill and
\* a non-builder fill both lie between the fill that opened its lifecycle and
\* the emitting fill, inclusive; fills met while flat taint nothing later.
C13_TaintWithinLifecycle ==
  (pout.done /\ pout.builderOnly) =>
    \A i \in 1..Len(pout.states) :
      LET sorted == SortFills(pin.fills)
          span == LifecycleStart(sorted, pout.states[i].idx)..pout.states[i].idx
      IN pout.states[i].tainted <=>
           /\ \E j \in span : isBuilderFill(sorted[j], pin.targetBuilder)
           /\ \E j \in span : ~isBuilderFill(sorted[j], pin.targetBuilder)

\* scenario S2: a target builder is configured and the fills of one coin are
\* a builder buy (builderFee = 1), a non-builder buy and a non-builder sell
IsScenarioS2 ==
  /\ bin.targetBuilder /= NoBuilder
  /\ Len(bin.fills) = 3
  /\ bin.fills[1].side = "B" /\ bin.fills[1].builderFee = "1"
  /\ bin.fills[1].builder.form = "absent"
  /\ bin.fills[2].side = "B" /\ bin.fills[3].side = "A"
  /\ \A i \in {2, 3} :
       bin.fills[i].builderFee = NoFee /\ bin.fills[i].builder.form = "absent"

\* C12: in scenario S2 with builderOnly = true, getPositionHistory emits no
\* position state and calculatePnl reports tainted = true.
C12_ScenarioS2 ==
  (IsScenarioS2 /\ bout.builderOnly = Given(TRUE)) =>
    /\ bout.op = "getPositionHistory" => bout.list = <<>>
    /\ bout.op = "calculatePnl" => bout.rec.tainted

\* C17: without a configured target builder isBuilderFill is false,
\* filterBuilderFills returns the empty list, and detectTaint,
\* isAnyLifecycleTainted, every position state and every PnL result report
\* tainted = false, for every input and mode.
C17_NoTargetNoTaint ==
  bin.raw \in {NoBuilder, ""} =>
    /\ bout.op = "isBuilderFill" => ~bout.flag
    /\ bout.op = "filterBuilderFills" => bout.list = <<>>
    /\ bout.op = "detectTaint" => ~bout.rec.tainted
    /\ bout.op = "isAnyLifecycleTainted" => ~bout.flag
    /\ bout.op = "getPositionHistory" =>
         \A i \in 1..Len(bout.list) : ~bout.list[i].tainted
    /\ bout.op = "calculatePnl" => ~bout.rec.tainted

\* no target builder, fills that carry a builder fee and a builder address,
\* and a position history of several states
C17_Witness ==
  /\ bin.raw = NoBuilder
  /\ bout.op = "getPositionHistory" /\ Len(bout.list) >= 2
  /\ \E i \in 1..Len(bin.fills) : bin.fills[i].builderFee = "1"
  /\ \E i \in 1..Len(bin.fills) : bin.fills[i].builder.form = "string"

\* the builder address a fill reports: the string form or the b field of the
\* object form; "" when it reports none
ReportedBuilder(fill) ==
  IF fill.builder.form \in {"string", "object"} THEN fill.builder.b ELSE ""

CapOf(params) ==
  IF params.maxStartCapital = Absent
    THEN defaultMaxStartCapital ELSE params.maxStartCapital[1]

\* C14: every PnL result has returnPct in [-1000, +1000] and
\* effectiveCapital in [0.01, maxStartCapital], for every cap >= 0.
C14_PnlBounds ==
  qout.op = "calculatePnl" =>
    /\ ~qout.result.returnPct.nan
    /\ qout.result.returnPct.val[1] <= 1000 * qout.result.returnPct.val[2]
    /\ qout.result.returnPct.val[1] >= -1000 * qout.result.returnPct.val[2]
    /\ qout.result.effectiveCapital >= MinCapital
    /\ qout.result.effectiveCapital <= CapOf(qout.params)

\* the window a query runs over
WindowOf(params) ==
  <<IF params.fromMs = Absent THEN 0 ELSE params.fromMs[1],
    IF params.toMs = Absent THEN now ELSE params.toMs[1]>>

\* the positions of the account's fills inside the window of the query
InPnlWindow ==
  {i \in 1..Len(qin.fills) :
     /\ qin.fills[i].time >= WindowOf(qout.params)[1]
     /\ qin.fills[i].time <= WindowOf(qout.params)[2]}

\* those of them counted under the mode
PnlCountedIdx ==
  {i \in InPnlWindow :
     \/ qout.params.builderOnly /= Given(TRUE)
     \/ isBuilderFill(qin.fills[i], qin.targetBuilder)}

RECURSIVE SumField(_, _, _)
SumField(fills, S, field) ==
  IF S = {} THEN 0
  ELSE LET i == CHOOSE j \in S : TRUE
       IN fills[i][field] + SumField(fills, S \ {i}, field)

\* C15: calculatePnl aggregates exactly the fills inside the window that are
\* counted under the mode: tradeCount is their number, realizedPnl the sum of
\* their closedPnl, feesPaid the sum of their fee.
C15_PnlAggregates ==
  qout.op = "calculatePnl" =>
    /\ qout.result.tradeCount = Cardinality(PnlCountedIdx)
    /\ qout.result.realizedPnl = SumField(qin.fills, PnlCountedIdx, "closedPnl")
    /\ qout.result.feesPaid = SumField(qin.fills, PnlCountedIdx, "fee")

\* a builder-only query whose account has a counted fill and a non-builder
\* fill inside the window and a fill outside it
C15_Witness ==
  /\ qout.op = "calculatePnl" /\ qout.params.builderOnly = Given(TRUE)
  /\ PnlCountedIdx /= {}
  /\ InPnlWindow \ PnlCountedIdx /= {}
  /\ (1..Len(qin.fills)) \ InPnlWindow /= {}
  /\ qout.result.realizedPnl /= 0

\* C16: the PnL-level tainted flag is builderOnly AND some fill of the window
\* is builder-attributed AND some fill of the window is not, over the whole
\* window; it is false when builderOnly is false or absent.
C16_PnlTaint ==
  qout.op = "calculatePnl" =>
    (qout.result.tainted <=>
       /\ qout.params.builderOnly = Given(TRUE)
       /\ \E i \in InPnlWindow : isBuilderFill(qin.fills[i], qin.targetBuilder)
       /\ \E i \in InPnlWindow : ~isBuilderFill(qin.fills[i], qin.targetBuilder))

\* a tainted result whose builder fills open and close one position and whose
\* non-builder fill comes after the close
C16_Witness ==
  /\ qout.op = "calculatePnl" /\ qout.result.tainted
  /\ Len(qin.fills) = 3 /\ InPnlWindow = {1, 2, 3}
  /\ qin.fills[1].side = "B" /\ qin.fills[1].builderFee = "1"
  /\ qin.fills[2].side = "A" /\ qin.fills[2].builderFee = "1"
  /\ qin.fills[3].builderFee = NoFee

\* a >= b on metric values that are numbers
MetricGeq(a, b) == a.val[1] * b.val[2] >= b.val[1] * a.val[2]

\* the limit a leaderboard query runs under
LimitOf(params) == IF params.limit = Absent THEN DefaultLimit ELSE params.limit[1]

\* C19: the entries of every leaderboard response are sorted by metricValue
\* in non-increasing order (read on the entries whose metricValue is a
\* number: none of them precedes a greater one), entry i (from 0) has rank
\* i + 1, no user appears twice, and there are at most limit entries.
C19_SortedRanked ==
  lb.op = "getLeaderboard" =>
    /\ \A i, j \in 1..Len(lb.entries) :
         (/\ i < j
          /\ ~lb.entries[i].metricValue.nan
          /\ ~lb.entries[j].metricValue.nan)
           => MetricGeq(lb.entries[i].metricValue, lb.entries[j].metricValue)
    /\ \A i \in 1..Len(lb.entries) : lb.entries[i].rank = i
    /\ \A i, j \in 1..Len(lb.entries) :
         lb.entries[i].user = lb.entries[j].user => i = j
    /\ Len(lb.entries) <= LimitOf(lb.params)

\* the PnL result of a registered user for the window of the query
PnlOf(user) ==
  calculatePnl(accounts[user].fills, accounts[user].currentEquity, now,
               UserParams(lb.params), BoardTarget)

\* C20: with builderOnly = true a registered user whose PnL result is tainted
\* never appears in the entries, whatever the metric, and an untainted
\* registered user whose PnL computation succeeds is a candidate entry.
C20_TaintedExcluded ==
  (lb.op = "getLeaderboard" /\ lb.params.builderOnly = Given(TRUE)) =>
    \A k \in 1..Len(registeredUsers) :
      LET user == registeredUsers[k]
      IN ~Throws(accounts[user], lb.params) =>
           IF PnlOf(user).tainted
             THEN \A i \in 1..Len(lb.entries) : lb.entries[i].user /= user
             ELSE \E i \in 1..Len(lb.userMetrics) : lb.userMetrics[i].user = user

\* scenario S5 and more: a builder-only leaderboard over a clean user, a
\* tainted user and a failing user, with the clean user as its only entry
C20_Witness ==
  /\ lb.op = "getLeaderboard" /\ lb.params.builderOnly = Given(TRUE)
  /\ lb.params.metric = "pnl" /\ Len(registeredUsers) = 3
  /\ \E k \in 1..3 : accounts[registeredUsers[k]].fails = "pnl"
  /\ \E k \in 1..3 :
       accounts[registeredUsers[k]].fails = "no" /\ PnlOf(registeredUsers[k]).tainted
  /\ Len(lb.entries) = 1 /\ lb.entries[1].rank = 1
  /\ lb.entries[1].metricValue = Num(30, 1) /\ ~lb.entries[1].tainted

\* the registered users whose computation does not fail under the query
RECURSIVE Succeeding(_, _)
Succeeding(users, params) ==
  IF users = <<>> THEN <<>>
  ELSE (IF Throws(accounts[Head(users)], params) THEN <<>> ELSE <<Head(users)>>)
       \o Succeeding(Tail(users), params)

\* C21: when the PnL or volume computation fails for some registered users,
\* getLeaderboard still answers; the failing users are absent from the entries
\* and the others are ranked exactly as if the failing users were not
\* registered.
C21_FailingUsersSkipped ==
  lb.op = "getLeaderboard" =>
    /\ \A k \in 1..Len(registeredUsers) :
         Throws(accounts[registeredUsers[k]], lb.params) =>
           \A i \in 1..Len(lb.entries) : lb.entries[i].user /= registeredUsers[k]
    /\ lb.entries = getLeaderboard(Succeeding(registeredUsers, lb.params),
                                   accounts, lb.params, now)

\* a volume leaderboard over three users, registered in the order: one whose
\* calculateVolume fails, one whose calculatePnl fails, one with a gain; the
\* response ranks the third alone
C21_Witness ==
  /\ lb.op = "getLeaderboard" /\ lb.params.metric = "volume"
  /\ lb.params.limit = Absent
  /\ Len(registeredUsers) = 3
  /\ accounts[registeredUsers[1]].fails = "volume"
  /\ accounts[registeredUsers[2]].fails = "pnl"
  /\ accounts[registeredUsers[3]].fails = "no"
  /\ Len(lb.entries) = 1
  /\ lb.entries[1].user = registeredUsers[3] /\ lb.entries[1].rank = 1

\* the elements of a sequence
Range(seq) == {seq[i] : i \in 1..Len(seq)}

\* a registerUser(a) call directly followed by unregisterUser(a)
RegisterThenUnregister ==
  /\ lb.op = "unregisterUser" /\ lb.prev.op = "registerUser"
  /\ lb.user = lb.prev.user

\* C22: for every address a and every prior registry state, registerUser(a)
\* followed by unregisterUser(a) leaves the set of registered users equal to
\* what it was before the two calls.
C22_RegisterUnregister ==
  RegisterThenUnregister => Range(registeredUsers) = Range(lb.prev.before)

\* C22 as amended: when lower(a) is not registered before the two calls, the
\* registry after them is what it was before; when it is, the two calls
\* remove it and leave the others.
C22_RegisterUnregisterNew ==
  RegisterThenUnregister =>
    IF isUserRegistered(lb.prev.before, lb.user)
      THEN Range(registeredUsers) =
             Range(lb.prev.before) \ {ToLowerCase(lb.user)}
      ELSE registeredUsers = lb.prev.before

\* "0xA" is registered beside another user and unregistered again
C22_Witness ==
  /\ RegisterThenUnregister /\ lb.user = "0xA"
  /\ lb.prev.before = <<"0xb">> /\ lb.before = <<"0xb", "0xa">>
  /\ registeredUsers = <<"0xb">> /\ lb.returned

\* C23: after any sequence of registerUser and unregisterUser calls the
\* registry holds only lowercased addresses, none twice; membership does not
\* depend on the case of the address asked for; registerUser(a) returns true
\* (HTTP 201) exactly when lower(a) was not a member before the call, and
\* false (HTTP 200, 'User already registered') otherwise, leaving the set
\* unchanged in that case.
C23_RegistryLowercaseUnique ==
  /\ \A i \in 1..Len(registeredUsers) :
       registeredUsers[i] = ToLowerCase(registeredUsers[i])
  /\ \A i, j \in 1..Len(registeredUsers) :
       registeredUsers[i] = registeredUsers[j] => i = j
  /\ \A a, b \in Addresses :
       ToLowerCase(a) = ToLowerCase(b) =>
         (isUserRegistered(registeredUsers, a)
            <=> isUserRegistered(registeredUsers, b))
  /\ lb.op = "registerUser" =>
       /\ \A a \in Addresses :
            ToLowerCase(a) = ToLowerCase(lb.user) =>
              isUserRegistered(registeredUsers, a)
       /\ lb.returned <=> ToLowerCase(lb.user) \notin Range(lb.before)
       /\ lb.reply = IF lb.returned
                       THEN [status |-> 201, message |-> ""]
                       ELSE [status |-> 200, message |-> "User already registered"]
       /\ ~lb.returned => registeredUsers = lb.before

\* "0xa" is registered, then "0xA" is turned down as already registered
C23_Witness ==
  /\ lb.op = "registerUser" /\ lb.user = "0xA" /\ ~lb.returned
  /\ lb.reply.status = 200
  /\ lb.prev.op = "registerUser" /\ lb.prev.user = "0xa"
  /\ registeredUsers = lb.before /\ "0xa" \in Range(registeredUsers)

\* the emitting fill of state i and the running size it met
StateFill(i) == SortFills(pin.fills)[pout.states[i].idx]
SizeBefore(i) == RunSize(SortFills(pin.fills), pout.states[i].idx - 1)

\* state i was emitted by a counted fill against the running position
Opposes(i) ==
  /\ SizeBefore(i) /= 0
  /\ Sign(FillSigned(StateFill(i))) /= Sign(SizeBefore(i))

\* C28: a counted fill of sign opposite to the running position with
\* |s| = |N| ends the lifecycle: the emitted state has netSize 0, not a
\* flipped position; the builder and non-builder counters are reset, so the
\* taint of the next emitted state depends only on the fills after the
\* closing one; and the next counted fill opens a fresh position whose
\* avgEntryPx is that fill's price.
C28_ExactCloseEndsLifecycle ==
  pout.done =>
    \A i \in 1..Len(pout.states) :
      (Opposes(i) /\ Abs(FillSigned(StateFill(i))) = Abs(SizeBefore(i))) =>
        /\ pout.states[i].netSize = 0
        /\ i < Len(pout.states) =>
             LET next == pout.states[i + 1]
                 after == {SortFills(pin.fills)[j] :
                             j \in (pout.states[i].idx + 1)..next.idx}
             IN /\ next.netSize = FillSigned(StateFill(i + 1))
                /\ next.avgEntryPx = Frac(StateFill(i + 1).px, 1)
                /\ next.tainted <=>
                     /\ pout.builderOnly
                     /\ \E f \in after : isBuilderFill(f, pin.targetBuilder)
                     /\ \E f \in after : ~isBuilderFill(f, pin.targetBuilder)

\* builder-only: a non-builder fill, a builder buy at price 1, an equal
\* builder sell, then a builder fill at price 2 that reopens untainted
C28_Witness ==
  /\ pout.done /\ pout.builderOnly /\ Len(pout.states) = 3
  /\ Len(pin.fills) = 4 /\ ~Counted(SortFills(pin.fills)[1])
  /\ pout.states[1].tainted /\ pout.states[1].avgEntryPx = <<1, 1>>
  /\ pout.states[2].netSize = 0 /\ pout.states[2].tainted
  /\ pout.states[3].netSize /= 0 /\ ~pout.states[3].tainted
  /\ pout.states[3].avgEntryPx = <<2, 1>>

\* C29: a counted fill of sign opposite to the running position with
\* |s| > |N| flips the position: the emitted state has netSize N + s, of the
\* reversed sign, and avgEntryPx equal to the fill's price, whatever the
\* previous avgEntryPx was.
C29_FlipTakesFillPrice ==
  pout.done =>
    \A i \in 1..Len(pout.states) :
      (Opposes(i) /\ Abs(FillSigned(StateFill(i))) > Abs(SizeBefore(i))) =>
        /\ pout.states[i].netSize = SizeBefore(i) + FillSigned(StateFill(i))
        /\ Sign(pout.states[i].netSize) = -Sign(SizeBefore(i))
        /\ pout.states[i].avgEntryPx = Frac(StateFill(i).px, 1)

\* long 1 @ 1, then sell 2 @ 2: netSize -1 at avgEntryPx 2
C29_Witness ==
  /\ pout.done /\ Len(pout.states) = 2
  /\ pout.states[1].netSize = 1 /\ pout.states[1].avgEntryPx = <<1, 1>>
  /\ pout.states[2].netSize = -1 /\ pout.states[2].avgEntryPx = <<2, 1>>

\* the entries of a cache map that are older than twice the TTL
Overdue(cache, t, ttl) ==
  {k \in DOMAIN cache : cache[k] /= NoEntry /\ t - cache[k].timestamp > 2 * ttl}

\* read r completes a miss of the given kind in this step
CompletesMiss(r, kind) ==
  /\ rd[r].pc = "post" /\ rd[r].q.kind = kind /\ rd[r].miss
  /\ rd'[r].pc = "done"

\* C30: a prune runs on every cache miss: when a miss on the fills cache or
\* on the clearinghouse cache has completed, the cache that missed holds no
\* entry older than 2 x its TTL.
C30_PruneOnEveryMiss ==
  [][\A r \in Readers :
       /\ CompletesMiss(r, "fills") =>
            Overdue(fillsCache', now', fillsTtlMs) = {}
       /\ CompletesMiss(r, "clearinghouse") =>
            Overdue(clearinghouseCache', now', clearinghouseTtlMs) = {}]_vars

\* the fills of the getTrades call that lie in its window and pass its
\* builder filter, in time order
TradeCandidates ==
  SortFills(filteredFills(tin.fills, now,
                          [tout.params EXCEPT !.collapseBy = Absent],
                          tin.targetBuilder))

\* the number of elements of a sequence that satisfy a test
CountSeq(seq, Test(_)) == Len(SelectSeq(seq, Test))

\* C27: with collapseBy = k in {hash, oid, tid} getTrades returns its fills in
\* ascending time order, keeps for each distinct present value of k exactly
\* the earliest fill carrying it (no two returned fills share a value of k),
\* returns every fill lacking k unchanged, and collapsing its output again
\* changes nothing.
C27_CollapseKeepsEarliest ==
  (tout.op = "getTrades" /\ tout.params.collapseBy /= Absent) =>
    LET k == tout.params.collapseBy[1]
        all == TradeCandidates
        kept == tout.fills
    IN /\ IsTimeAscending(kept)
       /\ \A i \in 1..Len(all) :
            all[i][k] /= Absent =>
              /\ CountSeq(kept, LAMBDA f : f[k] = all[i][k]) = 1
              /\ \A j \in 1..Len(kept) :
                   kept[j][k] = all[i][k] =>
                     /\ kept[j].time <= all[i].time
                     /\ \E h \in 1..Len(all) : all[h] = kept[j]
       /\ SelectSeq(kept, LAMBDA f : f[k] = Absent)
            = SelectSeq(all, LAMBDA f : f[k] = Absent)
       /\ Len(tout.trades) = Len(kept)
       /\ \A j \in 1..Len(kept) : tout.trades[j] = normalizeFill(kept[j])
       /\ Collapse(kept, k) = kept

\* collapse by oid over three fills: two share oid 1 at times 1 and 2, two
\* lack none or one; the later fill of oid 1 is dropped and a fill without
\* oid is returned
C27_Witness ==
  /\ tout.op = "getTrades" /\ tout.params.collapseBy = Given("oid")
  /\ tout.params.builderOnly = Absent /\ tout.params.fromMs = Absent
  /\ Len(tin.fills) = 3 /\ Len(tout.trades) = 2
  /\ \E i, j \in 1..3 :
       /\ tin.fills[i].oid = Given(1) /\ tin.fills[j].oid = Given(1)
       /\ tin.fills[i].time < tin.fills[j].time
  /\ \E j \in 1..2 : tout.fills[j].oid = Absent
  /\ \E j \in 1..2 : tout.fills[j].oid = Given(1) /\ tout.fills[j].time = 1


\* C24: when an upstream call fails while /v1/trades, /v1/positions/history or
\* /v1/pnl is served, the response has status 502 and a body {error, message}
C24_UpstreamFailureIs502 ==
  \A r \in Requests :
    (http[r].pc = "done" /\ http[r].failed) =>
      /\ http[r].status = 502
      /\ DOMAIN http[r].body = {"error", "message"}

\* C25: every value of one calculatePnl response comes from a single fills
\* sample: no second, independent fills fetch contributes to the response
C25_SingleFillsSample ==
  \A r \in Requests :
    (http[r].pc = "done" /\ ~http[r].failed /\ http[r].route = "pnl") =>
      Cardinality(http[r].samples) <= 1

\* C26: two GET /v1/trades requests with the same query, issued within
\* fillsTtlMs of each other, return the same trades payload
C26_IdenticalTradesWithinTtl ==
  \A r, o \in Requests :
    ( /\ http[r].pc = "done" /\ ~http[r].failed /\ http[r].route = "trades"
      /\ http[o].pc = "done" /\ ~http[o].failed /\ http[o].route = "trades"
      /\ http[r].params = http[o].params
      /\ http[o].at - http[r].at \in 0..fillsTtlMs ) =>
        http[r].body = http[o].body

\* the positions of the upstream fills a query asks for: in its window, of its coin
Wanted(q) ==
  {i \in 1..Len(upstream) :
     /\ upstream[i].time >= q.fromMs /\ upstream[i].time <= q.toMs
     /\ (q.coin = NoCoin \/ ToUpperCase(upstream[i].coin) = ToUpperCase(q.coin))}

\* the positions of the upstream fills in the window of a query, of any coin
InWindow(q) ==
  {i \in 1..Len(upstream) :
     upstream[i].time >= q.fromMs /\ upstream[i].time <= q.toMs}

\* C31: a fetch that has returned has issued at least one upstream call, for
\* every window including fromMs = toMs; when the upstream holds fewer than
\* MAX_FILLS_PER_REQUEST fills in the window, the result holds every one of
\* them that matches the coin filter.
C31_FirstCallAlwaysIssued ==
  (rd[1].pc = "done" /\ rd[1].q.kind = "direct") =>
    /\ rd[1].calls >= 1
    /\ Cardinality(InWindow(rd[1].q)) < MAX_FILLS_PER_REQUEST =>
         Wanted(rd[1].q) \subseteq Range(rd[1].result)

\* the fills of the list handed over that getPositionHistory counts under its
\* mode and that lie in its window
CountedInWindow ==
  SelectSeq(pin.fills,
    LAMBDA f : /\ (~pout.builderOnly \/ isBuilderFill(f, pin.targetBuilder))
               /\ f.time >= pout.fromMs /\ f.time <= pout.toMs)

\* C32: getPositionHistory returns its states ascending in timeMs, exactly one
\* per fill that is counted under the mode and lies in [fromMs, toMs]; counted
\* fills before fromMs emit no state but move netSize and avgEntryPx exactly
\* as in the history asked from 0.
C32_OneStatePerCountedFill ==
  (pout.done /\ pout.fromMs <= pout.toMs) =>
    /\ \A i \in 1..(Len(pout.states) - 1) :
         pout.states[i].timeMs <= pout.states[i + 1].timeMs
    /\ Len(pout.states) = Len(CountedInWindow)
    /\ \A t \in 1..2 :
         CountSeq(pout.states, LAMBDA s : s.timeMs = t)
           = CountSeq(CountedInWindow, LAMBDA f : f.time = t)
    /\ pout.states =
         SelectSeq(getPositionHistory(pin.fills, 0, pout.toMs, pout.builderOnly,
                                      pin.targetBuilder),
                   LAMBDA s : s.timeMs >= pout.fromMs)

\* a history from time 2 of two coins, one of them opened by a counted fill
\* at time 1 the first state of which carries the earlier size
C32_Witness ==
  /\ pout.done /\ pout.fromMs = 2 /\ pout.toMs = 2 /\ pout.builderOnly
  /\ Len(pout.states) = 2
  /\ \E i \in 1..Len(pin.fills) :
       /\ pin.fills[i].time = 1
       /\ isBuilderFill(pin.fills[i], pin.targetBuilder)
  /\ \E i, j \in 1..Len(pin.fills) : pin.fills[i].coin /= pin.fills[j].coin
  /\ \E k \in 1..Len(pout.states) : Abs(pout.states[k].netSize) = 2

\* C33: the bucket was empty at time 0 and no acquire has succeeded since;
\* once windowMs has elapsed the bucket holds maxWeight tokens, however often
\* and whenever refill was evaluated in between.
C33_RefillRateIndependentOfPolling ==
  (now = windowMs /\ \A i \in 0..(windowMs - 1) : recent[i] = 0) =>
    Refill(tokens, lastRefill, now)[1] = maxWeight

\* C34: token conservation.  At every time T the weight granted by the
\* completed acquire calls is at most maxWeight plus one token per
\* windowMs / maxWeight of T, and the bucket is never overdrawn (recent holds
\* the grants of the last windowMs ms: all of them while T < windowMs).
C34_TokenConservation ==
  /\ SumOver(recent, 0..(windowMs - 1)) <= maxWeight + TokensToAdd(now, 0)
  /\ tokens >= 0

\* everything the bucket held and everything it accumulated has been granted,
\* to calls that overlapped
C34_Witness ==
  /\ now > 0 /\ TokensToAdd(now, 0) > 0
  /\ SumOver(recent, 0..(windowMs - 1)) = maxWeight + TokensToAdd(now, 0)
  /\ \A p \in Callers : acq[p].pc = "acquired"

\* C35: with finitely many calls outstanding and time advancing, a call of
\* acquire(weight) returns eventually if weight <= maxWeight and never if
\* weight > maxWeight; a call is only ever waiting or returned, never failed.
C35_ReturnsIffWithinCapacity ==
  \A p \in Callers :
    /\ [](acq[p].pc \in {"idle", "sleeping", "acquired"})
    /\ [](acq[p].weight > maxWeight => acq[p].pc /= "acquired")
    /\ [](acq[p].pc = "sleeping" /\ acq[p].weight <= maxWeight
            => <>(acq[p].pc = "acquired"))

\* a call above capacity still waits at the end, before a full bucket, while
\* the call within capacity has returned
C35_Witness ==
  \E p, o \in Callers :
    /\ acq[p].pc = "acquired" /\ acq[p].weight <= maxWeight
    /\ acq[o].pc = "sleeping" /\ acq[o].weight > maxWeight
    /\ tokens = maxWeight
    /\ now = Horizon

\* C36: the pagination loop terminates.  Between two successive upstream
\* calls of a fetch the cursor strictly increases; it never exceeds toMs + 1;
\* so a fetch issues at most toMs - fromMs calls before it returns.
C36_PaginationTerminates ==
  /\ [][(rd[1].pc = "post" /\ rd'[1].pc = "post") =>
          /\ rd'[1].cursor > rd[1].cursor
          /\ rd'[1].calls = rd[1].calls + 1]_vars
  /\ [](rd[1].q.kind = "direct" =>
          /\ rd[1].cursor <= Max(rd[1].q.toMs + 1, rd[1].q.fromMs)
          /\ rd[1].calls <= Max(rd[1].q.toMs - rd[1].q.fromMs, 0)
          /\ rd[1].pc \in {"post", "done", "failed"})

\* a fetch that returned after two calls, its cursor one past the window
C36_Witness ==
  /\ rd[1].pc = "done" /\ rd[1].q.kind = "direct"
  /\ rd[1].calls = 2
  /\ rd[1].cursor = rd[1].q.toMs + 1
  /\ Len(rd[1].result) = 3

RECURSIVE FullBatchEnds(_, _)
\* the last times of the full batches the exchange hands out when the window
\* is read page by page from cursor
FullBatchEnds(cursor, toMs) ==
  LET batch == UserFillsByTime(cursor, toMs) IN
  IF Len(batch) < MAX_FILLS_PER_REQUEST THEN {}
  ELSE LET lastTime == upstream[batch[Len(batch)]].time
       IN {lastTime} \cup (IF lastTime + 1 > toMs THEN {}
                           ELSE FullBatchEnds(lastTime + 1, toMs))

\* C37: the list getUserFills returns is ascending in time, holds no upstream
\* fill twice, and holds every upstream fill of the window that matches the
\* coin filter, except possibly fills at the last time of a full batch.
C37_SortedUniqueComplete ==
  (rd[1].pc = "done" /\ rd[1].q.kind = "direct") =>
    LET result == rd[1].result IN
    /\ \A i \in 1..(Len(result) - 1) :
         upstream[result[i]].time <= upstream[result[i + 1]].time
    /\ \A i, j \in 1..Len(result) : i /= j => result[i] /= result[j]
    /\ \A i \in Wanted(rd[1].q) :
         \/ i \in Range(result)
         \/ upstream[i].time \in FullBatchEnds(rd[1].q.fromMs, rd[1].q.toMs)

\* C38: when misses for one key overlap, the entry left once they have all
\* completed is the result of the fetch that started last: never the result
\* of a miss that started before another completed miss for the key
\* (requests are numbered in the order they start).
C38_LastStartedWins ==
  \A r, o \in Readers :
    ( /\ r < o
      /\ Returned(r) /\ rd[r].miss
      /\ Returned(o) /\ rd[o].miss
      /\ SameKey(r, o) ) =>
        /\ rd[r].q.kind = "fills" => fillsCache[KeyOf(rd[r].q)].by /= r
        /\ rd[r].q.kind = "clearinghouse" =>
             clearinghouseCache[KeyOf(rd[r].q)].by /= r

\* C39: every entry of every getLeaderboard response has tainted = false,
\* for every metric, with builderOnly and without.
C39_EntriesNeverTainted ==
  lb.op = "getLeaderboard" =>
    \A i \in 1..Len(lb.entries) : ~lb.entries[i].tainted

\* a leaderboard without builderOnly that ranks a user whose builder and
\* non-builder fills would taint the builder-only result
C39_Witness ==
  /\ lb.op = "getLeaderboard" /\ lb.params.builderOnly = Absent
  /\ lb.params.limit = Absent
  /\ \E i \in 1..Len(lb.entries) :
       LET acct == accounts[lb.entries[i].user]
       IN calculatePnl(acct.fills, acct.currentEquity, now,
                       [UserParams(lb.params) EXCEPT !.builderOnly = Given(TRUE)],
                       BoardTarget).tainted

\* C40: getLeaderboard works on the registry as it was when the call
\* started: whatever is registered or unregistered while it runs, the users
\* it has ranked are users of that snapshot, taken in its order, and the
\* finished response is the leaderboard of the snapshot.
C40_SnapshotAtStart ==
  /\ lb.op \in {"running", "done"} =>
       /\ \A i \in 1..Len(lb.userMetrics) :
            Contains(lb.users, lb.userMetrics[i].user)
       /\ lb.userMetrics =
            UserMetrics(SubSeq(lb.users, 1, Min(lb.k - 1, Len(lb.users))), 1,
                        accounts, lb.params, now)
  /\ lb.op = "done" =>
       lb.entries = getLeaderboard(lb.users, accounts, lb.params, now)

\* a finished call that ranks a user unregistered while it ran and lacks a
\* user registered while it ran
C40_Witness ==
  /\ lb.op = "done"
  /\ \E i \in 1..Len(lb.entries) : ~Contains(registeredUsers, lb.entries[i].user)
  /\ \E j \in 1..Len(registeredUsers) :
       /\ ~Contains(lb.users, registeredUsers[j])
       /\ ~Throws(accounts[registeredUsers[j]], lb.params)
       /\ \A i \in 1..Len(lb.entries) : lb.entries[i].user /= registeredUsers[j]
  /\ lb.params.limit = Absent

====
